---- MODULE Spec2Model ----
(***************************************************************************)
(* DERopt_Python: the energy-load ingestion pipeline                       *)
(* (data_loading/loaders/energy_load.py), the resource-profile aligner     *)
(* (data_loading/loaders/resource_profiles.py) and the container they      *)
(* share (data_loading/schemas.py).                                        *)
(*                                                                         *)
(* Representation.                                                         *)
(*  - A datetime is [ord |-> proleptic Gregorian ordinal, t |-> ticks      *)
(*    since midnight], TicksPerSecond ticks to the second.                 *)
(*  - A serial day number (a float in the code) is [day, ft]: the value    *)
(*    day + ft / TicksPerDay, 0 <= ft < TicksPerDay.                       *)
(*  - A text datetime cell is [k |-> "text", pat, dt]: the text that       *)
(*    renders dt in the strftime pattern pat ("junk": no pattern parses    *)
(*    it).  strptime(raw, fmt) succeeds exactly when raw.pat = fmt.        *)
(***************************************************************************)
EXTENDS Integers, Sequences, FiniteSets, TLC

VARIABLES
    universe,   \* which bounded set of inputs this behaviour draws from
    cfg,        \* EnergyLoadFileConfig of the load_energy_load call
    file,       \* the source file: [exists, headers]
    pc,         \* load_energy_load: "idle", "rows" (in the row loop), "done", "error"
    fieldnames, \* the deduplicated headers
    load_columns,
    series_units,
    effective_datetime_format,
    rows,       \* the source rows read so far, in file order
    datetimes,
    series_values,
    container,  \* the DataContainer returned, or NoContainer
    error,      \* the exception raised, or NoError
    solar_calls, \* number of load_solar_into_container calls made on the container
    solar_error, \* the exception raised by the last such call, or NoError
    call,       \* pure-function harness: the function applied and its argument
    ret         \* pure-function harness: the value returned

loadVars == <<universe, cfg, file, pc, fieldnames, load_columns, series_units,
              effective_datetime_format, rows, datetimes, series_values, error>>
solarVars == <<solar_calls, solar_error>>
harnessVars == <<call, ret>>
vars == <<loadVars, container, solarVars, harnessVars>>

---------------------------------------------------------------------------
(* Resolution of the model's clock. *)
TicksPerSecond == 10
TicksPerDay == 86400 * TicksPerSecond

Max(a, b) == IF a >= b THEN a ELSE b
Min(a, b) == IF a <= b THEN a ELSE b
Abs(a) == IF a < 0 THEN -a ELSE a

---------------------------------------------------------------------------
(* Python's datetime calendar (proleptic Gregorian; ordinal 1 = 0001-01-01) *)

IsLeap(y) == (y % 4 = 0) /\ ((y % 100 # 0) \/ (y % 400 = 0))

DaysBeforeYear(y) ==
    LET p == y - 1 IN p * 365 + (p \div 4) - (p \div 100) + (p \div 400)

DaysInMonth(y, m) ==
    IF m = 2 THEN (IF IsLeap(y) THEN 29 ELSE 28)
    ELSE IF m \in {4, 6, 9, 11} THEN 30 ELSE 31

RECURSIVE DaysBeforeMonth(_, _)
DaysBeforeMonth(y, m) ==
    IF m <= 1 THEN 0 ELSE DaysBeforeMonth(y, m - 1) + DaysInMonth(y, m - 1)

\* datetime(y, m, d).toordinal()
Ymd2Ord(y, m, d) == DaysBeforeYear(y) + DaysBeforeMonth(y, m) + d

\* datetime.fromordinal(n) as <<year, month, day>>
Ord2Ymd(ordinal) ==
    LET n0   == ordinal - 1
        n400 == n0 \div 146097
        r400 == n0 % 146097
        n100 == r400 \div 36524
        r100 == r400 % 36524
        n4   == r100 \div 1461
        r4   == r100 % 1461
        n1   == r4 \div 365
        yr   == n400 * 400 + n100 * 100 + n4 * 4 + n1 + 1
    IN  IF n1 = 4 \/ n100 = 4
        THEN <<yr - 1, 12, 31>>
        ELSE LET doy == ordinal - DaysBeforeYear(yr)
                 mo  == CHOOSE m \in 1..12 :
                            /\ DaysBeforeMonth(yr, m) < doy
                            /\ doy <= DaysBeforeMonth(yr, m) + DaysInMonth(yr, m)
             IN  <<yr, mo, doy - DaysBeforeMonth(yr, mo)>>

DT(o, t) == [ord |-> o, t |-> t]

\* dt + timedelta(days=d, ticks=k)
AddDaysTicks(dt, d, k) ==
    LET tot == dt.t + k
    IN  DT(dt.ord + d + (tot \div TicksPerDay), tot % TicksPerDay)

\* a < b on datetimes
DtLess(a, b) == a.ord < b.ord \/ (a.ord = b.ord /\ a.t < b.t)

\* round(x) of Python on the value n / d (d > 0, n >= 0): nearest, ties to even
RoundHalfEven(n, d) ==
    LET q == n \div d
        r == n % d
    IN  IF 2 * r < d THEN q
        ELSE IF 2 * r > d THEN q + 1
        ELSE IF q % 2 = 0 THEN q ELSE q + 1

---------------------------------------------------------------------------
(* Serial-date decoders, energy_load.py *)

_SERIAL_EXCEL_MAX == 100000
_SERIAL_MATLAB_MIN == 100000

Serial(day, ft) == [day |-> day, ft |-> ft]

\* serial >= k and serial <= k for an integer k
SerialGe(s, k) == s.day >= k
SerialLe(s, k) == s.day < k \/ (s.day = k /\ s.ft = 0)

_datetime_to_matlab_serial(dt) == Serial(dt.ord + 366, dt.t)

\* a variant with the epoch one day off
_matlab_serial_to_datetime_epoch367(serial) ==
    LET ordinal == serial.day - 367
        base    == DT(Max(ordinal, 1), 0)
        seconds == RoundHalfEven(serial.ft, TicksPerSecond)
    IN  AddDaysTicks(base, 0, seconds * TicksPerSecond)

_matlab_serial_to_datetime(serial) ==
    LET day     == serial.day
        ordinal == day - 366
        base    == DT(Max(ordinal, 1), 0)
        seconds == RoundHalfEven(serial.ft, TicksPerSecond)
    IN  AddDaysTicks(base, 0, seconds * TicksPerSecond)

\* datetime(1899, 12, 31).toordinal()
ExcelEpochOrdinal == Ymd2Ord(1899, 12, 31)

_excel_serial_to_datetime(serial) ==
    LET s == IF SerialGe(serial, 61) THEN Serial(serial.day - 1, serial.ft)
             ELSE serial
    IN  AddDaysTicks(DT(ExcelEpochOrdinal, 0), s.day, s.ft)

---------------------------------------------------------------------------
(* Raw cells and the per-cell datetime decoder, energy_load.py *)

(* A raw cell: blank (None, NaN, "" or whitespace), a native datetime, a     *)
(* number (or its text, which float() reads), or any other text.            *)
(* A number is the exact rational [n, d] = n / d, d > 0.                    *)

NoDt == DT(0, 0)
NoNum == [n |-> 0, d |-> 1]

Blank == [k |-> "blank", pat |-> "", dt |-> NoDt, num |-> NoNum]
Native(dt) == [k |-> "native", pat |-> "", dt |-> dt, num |-> NoNum]
Num(n, d) == [k |-> "num", pat |-> "", dt |-> NoDt, num |-> [n |-> n, d |-> d]]
Text(pat, dt) == [k |-> "text", pat |-> pat, dt |-> dt, num |-> NoNum]

\* serial = float(raw): the number as day + ft / TicksPerDay
SerialOf(q) == Serial(q.n \div q.d, ((q.n % q.d) * TicksPerDay) \div q.d)

\* the strftime patterns the auto mode tries, in order
AutoTrials == <<"%m/%d/%Y %H:%M", "%Y-%m-%d %H:%M", "%Y-%m-%d", "%m/%d/%Y">>

\* datetime.strptime(raw, fmt) on a text or numeric cell: does it parse
Strptime(raw, fmt) == raw.k = "text" /\ raw.pat = fmt

Parsed(dt) == [ok |-> TRUE, dt |-> dt, err |-> "", row |-> 0, path |-> FALSE, raw |-> FALSE]
ParseError(msg, row, path, raw) ==
    [ok |-> FALSE, dt |-> NoDt, err |-> msg, row |-> row, path |-> path, raw |-> raw]

\* auto, numeric cell: the decoder chosen by magnitude
AutoSerialMode(serial) ==
    IF SerialGe(serial, _SERIAL_MATLAB_MIN) THEN "matlab_serial"
    ELSE IF SerialLe(serial, _SERIAL_EXCEL_MAX) THEN "excel_serial"
    ELSE "excel_serial"

DecodeSerial(mode, serial) ==
    IF mode = "matlab_serial" THEN _matlab_serial_to_datetime(serial)
    ELSE _excel_serial_to_datetime(serial)

_parse_datetime_cell(raw, fmt, row_idx) ==
    IF raw.k = "blank" THEN ParseError("empty datetime", row_idx, TRUE, FALSE)
    ELSE IF raw.k = "native" THEN Parsed(raw.dt)
    ELSE IF fmt \in {"matlab_serial", "excel_serial", "auto"} THEN
        IF raw.k = "text" THEN
            IF fmt = "auto" THEN
                IF \E i \in 1..Len(AutoTrials) : Strptime(raw, AutoTrials[i])
                THEN Parsed(raw.dt)
                ELSE ParseError("auto format could not parse text date", row_idx, FALSE, TRUE)
            ELSE ParseError("value is not numeric", row_idx, FALSE, TRUE)
        ELSE IF fmt = "auto"
             THEN Parsed(DecodeSerial(AutoSerialMode(SerialOf(raw.num)), SerialOf(raw.num)))
        ELSE Parsed(DecodeSerial(fmt, SerialOf(raw.num)))
    ELSE IF Strptime(raw, fmt) THEN Parsed(raw.dt)
    ELSE ParseError("failed datetime parse", row_idx, FALSE, TRUE)

---------------------------------------------------------------------------
(* Float values as exact rationals [n, d], d > 0, in lowest terms;         *)
(* NaN is the missing marker (math.nan), NoneQ is Python's None.           *)

RECURSIVE GCD(_, _)
GCD(a, b) == IF b = 0 THEN a ELSE GCD(b, a % b)

Q(n, d) ==
    LET g == GCD(Abs(n), Abs(d))
        s == IF d < 0 THEN -1 ELSE 1
    IN  [n |-> s * (n \div g), d |-> s * (d \div g)]

NaN == [n |-> 0, d |-> 0]
NoneQ == [n |-> 0, d |-> -1]
IsNaN(x) == x.d = 0
IsNeg(x) == x.d > 0 /\ x.n < 0

QInt(k) == [n |-> k, d |-> 1]
QAdd(x, y) == IF IsNaN(x) \/ IsNaN(y) THEN NaN ELSE Q(x.n * y.d + y.n * x.d, x.d * y.d)
QSub(x, y) == IF IsNaN(x) \/ IsNaN(y) THEN NaN ELSE Q(x.n * y.d - y.n * x.d, x.d * y.d)
QMul(x, y) == IF IsNaN(x) \/ IsNaN(y) THEN NaN ELSE Q(x.n * y.n, x.d * y.d)
\* x / k for an integer k > 0
QDivInt(x, k) == IF IsNaN(x) THEN NaN ELSE Q(x.n, x.d * k)

Range(f) == {f[i] : i \in DOMAIN f}
SetMin(S) == CHOOSE x \in S : \A y \in S : x <= y
SetMax(S) == CHOOSE x \in S : \A y \in S : x >= y

RECURSIVE SumQ(_, _)
SumQ(xs, I) ==
    IF I = {} THEN QInt(0)
    ELSE LET i == SetMin(I) IN QAdd(xs[i], SumQ(xs, I \ {i}))

---------------------------------------------------------------------------
(* Header text: a header is a sequence of one-character strings.           *)

UpperChars == <<"A","B","C","D","E","F","G","H","I","J","K","L","M",
                "N","O","P","Q","R","S","T","U","V","W","X","Y","Z">>
LowerChars == <<"a","b","c","d","e","f","g","h","i","j","k","l","m",
                "n","o","p","q","r","s","t","u","v","w","x","y","z">>
DigitChars == <<"0","1","2","3","4","5","6","7","8","9">>

\* str.lower() of one character
LowerChar(c) ==
    IF \E i \in 1..26 : UpperChars[i] = c
    THEN LowerChars[CHOOSE i \in 1..26 : UpperChars[i] = c]
    ELSE c

LowerStr(h) == [i \in 1..Len(h) |-> LowerChar(h[i])]

\* [a-z0-9]
IsLowerAlnum(c) == c \in Range(LowerChars) \cup Range(DigitChars)
\* \w under re.IGNORECASE
IsWordChar(c) == IsLowerAlnum(LowerChar(c)) \/ c = "_"

\* does the text w occur in h at position p (case-insensitive)
MatchesAt(h, p, w) ==
    /\ p >= 1
    /\ p + Len(w) - 1 <= Len(h)
    /\ \A i \in 1..Len(w) : LowerChar(h[p + i - 1]) = w[i]

\* \b between positions p - 1 and p of h
WordBoundary(h, p) ==
    LET before == p > 1 /\ p - 1 <= Len(h) /\ IsWordChar(h[p - 1])
        after  == p >= 1 /\ p <= Len(h) /\ IsWordChar(h[p])
    IN  before # after

\* \bw\b found at position p
WordAt(h, p, w) ==
    MatchesAt(h, p, w) /\ WordBoundary(h, p) /\ WordBoundary(h, p + Len(w))

\* str(n) for n >= 0
RECURSIVE IntToStr(_)
IntToStr(n) ==
    IF n < 10 THEN <<DigitChars[n + 1]>>
    ELSE IntToStr(n \div 10) \o <<DigitChars[(n % 10) + 1]>>

\* _UNIT_IN_PARENTHESES_PATTERN.search(name)
_UNIT_IN_PARENTHESES_PATTERN(h) ==
    \E i \in 1..Len(h) : \E j \in (i + 1)..Len(h) :
        /\ h[i] = "("
        /\ h[j] = ")"
        /\ \A k \in (i + 1)..(j - 1) : h[k] # ")"
        /\ \E q \in (i + 1)..(j - 1) :
              \/ WordAt(h, q, <<"k", "w">>) /\ q + 1 < j
              \/ WordAt(h, q, <<"k", "w", "h">>) /\ q + 2 < j

_KW_WORD_PATTERN(h) == \E q \in 1..Len(h) : WordAt(h, q, <<"k", "w">>)
_KWH_WORD_PATTERN(h) == \E q \in 1..Len(h) : WordAt(h, q, <<"k", "w", "h">>)

\* _NON_ALPHANUMERIC_PATTERN.sub("_", s): every maximal run outside [a-z0-9]
\* becomes one "_"
RECURSIVE SubNonAlnum(_, _)
SubNonAlnum(s, i) ==
    IF i > Len(s) THEN <<>>
    ELSE IF IsLowerAlnum(s[i]) THEN <<s[i]>> \o SubNonAlnum(s, i + 1)
    ELSE IF i > 1 /\ ~IsLowerAlnum(s[i - 1]) THEN SubNonAlnum(s, i + 1)
    ELSE <<"_">> \o SubNonAlnum(s, i + 1)

\* s.strip("_")
RECURSIVE StripUnderscores(_)
StripUnderscores(s) ==
    IF s = <<>> THEN s
    ELSE IF Head(s) = "_" THEN StripUnderscores(Tail(s))
    ELSE IF s[Len(s)] = "_" THEN StripUnderscores(SubSeq(s, 1, Len(s) - 1))
    ELSE s

\* s.replace(old, new)
RECURSIVE StrReplace(_, _, _)
StrReplace(s, old, new) ==
    IF s = <<>> THEN s
    ELSE IF MatchesAt(s, 1, old) /\ SubSeq(s, 1, Len(old)) = old
         THEN new \o StrReplace(SubSeq(s, Len(old) + 1, Len(s)), old, new)
    ELSE <<Head(s)>> \o StrReplace(Tail(s), old, new)

_normalize_series_key(header_name) ==
    LET raw == StripUnderscores(SubNonAlnum(LowerStr(header_name), 1))
    IN  StrReplace(raw, <<"d","e","m","a","n","d">>, <<"l","o","a","d">>)

_deduplicate_headers(names) ==
    [i \in 1..Len(names) |->
        LET name  == names[i]
            count == Cardinality({j \in 1..i : names[j] = name})
        IN  IF count = 1 THEN name
            ELSE name \o <<" ", "[">> \o IntToStr(count) \o <<"]">>]

\* a variant that keeps the selected columns in header order
_resolve_load_columns_header_order(names, configured_column) ==
    LET IsSelected(name) == _UNIT_IN_PARENTHESES_PATTERN(name) \/ name = configured_column
        selected == SelectSeq(names, IsSelected)
    IN  [ok |-> selected # <<>>, cols |-> selected]

\* the result of _resolve_load_columns; ok = FALSE is the ValueError
_resolve_load_columns(names, configured_column) ==
    LET IsUnit(name) == _UNIT_IN_PARENTHESES_PATTERN(name)
        NotConfigured(name) == name # configured_column
        matched_unit_columns == SelectSeq(names, IsUnit)
    IN  IF configured_column \in Range(names)
        THEN [ok |-> TRUE,
              cols |-> <<configured_column>> \o SelectSeq(matched_unit_columns, NotConfigured)]
        ELSE IF matched_unit_columns # <<>>
        THEN [ok |-> TRUE, cols |-> matched_unit_columns]
        ELSE [ok |-> FALSE, cols |-> <<>>]

_infer_units_from_header(header_name) ==
    IF _KWH_WORD_PATTERN(header_name) THEN "kWh"
    ELSE IF _KW_WORD_PATTERN(header_name) THEN "kW"
    ELSE "unknown"

---------------------------------------------------------------------------
(* Time conditioning, energy_load.py *)

\* (a - b) in ticks
DiffTicks(a, b) == (a.ord - b.ord) * TicksPerDay + (a.t - b.t)

\* list.sort(key=lambda x: x[0]): stable insertion by the datetime
RECURSIVE SortedInsert(_, _)
SortedInsert(sorted, x) ==
    IF sorted = <<>> THEN <<x>>
    ELSE IF DtLess(x.dt, Head(sorted).dt) THEN <<x>> \o sorted
    ELSE <<Head(sorted)>> \o SortedInsert(Tail(sorted), x)

RECURSIVE StableSort(_)
StableSort(xs) ==
    IF xs = <<>> THEN <<>>
    ELSE SortedInsert(StableSort(SubSeq(xs, 1, Len(xs) - 1)), xs[Len(xs)])

\* a variant that asks every step to equal the interval
_timestamps_are_regular_enough_every_step(dts, interval_minutes, tolerance_seconds) ==
    \A i \in 1..(Len(dts) - 1) :
        DiffTicks(dts[i + 1], dts[i]) = interval_minutes * 60 * TicksPerSecond

_timestamps_are_regular_enough(dts, interval_minutes, tolerance_seconds) ==
    IF Len(dts) <= 1 THEN TRUE
    ELSE LET interval  == interval_minutes * 60 * TicksPerSecond
             start     == dts[1]
             dist(i)   == LET r == DiffTicks(dts[i], start) % interval
                          IN  Min(r, interval - r)
             max_deviation == SetMax({dist(i) : i \in 1..Len(dts)})
         IN  max_deviation <= tolerance_seconds * TicksPerSecond

\* df.where(df >= 0) on one column
MaskNegative(xs) == [i \in 1..Len(xs) |-> IF IsNaN(xs[i]) \/ IsNeg(xs[i]) THEN NaN ELSE xs[i]]

\* the resampling frequency, in ticks
ResampleFreq(interval_min) ==
    (IF interval_min < 60 THEN interval_min ELSE 60) * 60 * TicksPerSecond

\* df.resample(freq): the bins (closed and labelled left, anchored at the
\* midnight of the first timestamp's day) from the first to the last timestamp
ResampleIndex(dts, freq) ==
    LET origin == DT(dts[1].ord, 0)
        k0 == DiffTicks(dts[1], origin) \div freq
        k1 == DiffTicks(dts[Len(dts)], origin) \div freq
    IN  [i \in 1..(k1 - k0 + 1) |-> AddDaysTicks(origin, 0, (k0 + i - 1) * freq)]

\* .mean() of one column over the bins: NaN skipped, an empty bin is NaN
ResampleMean(dts, xs, freq) ==
    LET origin == DT(dts[1].ord, 0)
        k0 == DiffTicks(dts[1], origin) \div freq
        k1 == DiffTicks(dts[Len(dts)], origin) \div freq
        members(k) == {j \in 1..Len(xs) :
                          /\ DiffTicks(dts[j], origin) \div freq = k
                          /\ ~IsNaN(xs[j])}
    IN  [i \in 1..(k1 - k0 + 1) |->
            LET m == members(k0 + i - 1)
            IN  IF m = {} THEN NaN ELSE QDivInt(SumQ(xs, m), Cardinality(m))]

\* Series.interpolate(method="linear", limit_direction="both"): positions are
\* equally spaced; the ends take the nearest valid value; a column with no
\* valid value is returned as it is
InterpolateLinear(xs) ==
    LET valid == {i \in 1..Len(xs) : ~IsNaN(xs[i])}
    IN  IF valid = {} THEN xs
        ELSE [i \in 1..Len(xs) |->
                IF i \in valid THEN xs[i]
                ELSE IF i < SetMin(valid) THEN xs[SetMin(valid)]
                ELSE IF i > SetMax(valid) THEN xs[SetMax(valid)]
                ELSE LET l == SetMax({j \in valid : j < i})
                         r == SetMin({j \in valid : j > i})
                     IN  QAdd(xs[l], QDivInt(QMul(QSub(xs[r], xs[l]), QInt(i - l)), r - l))]

Interpolate(xs, method) == InterpolateLinear(xs)

\* a variant that resamples whenever a target interval is configured
do_resample_always(dts, c) == c.target_interval_minutes # <<>>

\* the resample decision: is df.resample(freq).mean() applied.
\* An optional int is <<>> (None) or <<k>>.
do_resample(dts, c) ==
    /\ dts # <<>>
    /\ c.target_interval_minutes # <<>>
    /\ ~(/\ c.resample_only_if_irregular
         /\ _timestamps_are_regular_enough(dts, c.target_interval_minutes[1],
                                           c.resample_tolerance_seconds))

\* returns [dts, series]; series is a function of the column names.
_condition_time_series(dts, series, c) ==
    IF dts = <<>> THEN [datetimes |-> dts, series |-> series]
    ELSE
    LET masked == [col \in DOMAIN series |->
                      IF c.treat_negative_as_missing THEN MaskNegative(series[col])
                      ELSE series[col]]
        interval_min == c.target_interval_minutes
        freq == ResampleFreq(interval_min[1])
        new_dtimes == IF do_resample(dts, c) THEN ResampleIndex(dts, freq) ELSE dts
        resampled == [col \in DOMAIN series |->
                        IF do_resample(dts, c) THEN ResampleMean(dts, masked[col], freq)
                        ELSE masked[col]]
    IN  [datetimes |-> new_dtimes,
         series |-> [col \in DOMAIN series |->
                        Interpolate(resampled[col], c.interpolation_method)]]

---------------------------------------------------------------------------
(* DataContainer, schemas.py *)

NoContainer == [indices |-> <<>>, timeseries |-> <<>>, static |-> <<>>, tech_params |-> <<>>]
NoError == [type |-> "", msg |-> "", row |-> 0, col |-> <<>>, path |-> FALSE, raw |-> FALSE, found |-> <<>>]
Raise(type, msg, row, col, path, raw) ==
    [type |-> type, msg |-> msg, row |-> row, col |-> col, path |-> path, raw |-> raw, found |-> <<>>]

\* a variant whose message does not list the headers
RaiseFound_without_headers(type, msg, col, found) ==
    Raise(type, msg, 0, col, TRUE, FALSE)

\* an error whose message ends with "Found columns: {fieldnames}"
RaiseFound(type, msg, col, found) ==
    [Raise(type, msg, 0, col, TRUE, FALSE) EXCEPT !.found = found]

\* d[k] = v on a dict modelled as a function
Put(d, k, v) == [x \in (DOMAIN d) \cup {k} |-> IF x = k THEN v ELSE d[x]]

Key(prefix, suffix) == [p |-> prefix, s |-> suffix]
KeyDatetime == Key("datetime", <<>>)
KeyTimeSerial == Key("time_serial", <<>>)

\* DataContainer.validate_minimum_fields: "" when valid, else the message
validate_minimum_fields(c) ==
    LET keys == IF "electricity_load_keys" \in DOMAIN c.static
                THEN c.static["electricity_load_keys"] ELSE <<>>
    IN  IF "time" \notin DOMAIN c.indices THEN "indices.time is required"
        ELSE IF KeyTimeSerial \notin DOMAIN c.timeseries
             THEN "timeseries.time_serial is required"
        ELSE IF keys = <<>> THEN "static.electricity_load_keys is required (non-empty)"
        ELSE IF \E i \in 1..Len(keys) : keys[i] \notin DOMAIN c.timeseries
             THEN "timeseries.key is required"
        ELSE ""

---------------------------------------------------------------------------
(* The bounded inputs: configurations, files and cells. *)

MaxRows == 3

HDate == <<"D", "a", "t", "e">>
HElectric == <<"E", "l", "e", "c", "t", "r", "i", "c", " ", "D", "e", "m", "a", "n", "d", " ", "(", "k", "W", ")">>
HEnergy == <<"E", "n", "e", "r", "g", "y", " ", "U", "s", "e", " ", "(", "k", "W", "h", ")">>

HA == <<"A", " ", "(", "k", "W", ")">>
HB == <<"b", " ", "(", "K", "W", "H", ")">>

P_mdY_HM == "%m/%d/%Y %H:%M"
P_Ymd_HM == "%Y-%m-%d %H:%M"
P_Ymd == "%Y-%m-%d"
P_mdY == "%m/%d/%Y"
P_Ymd_HMS == "%Y-%m-%d %H:%M:%S"

\* 2022-01-01 plus m minutes
At(m) == AddDaysTicks(DT(Ymd2Ord(2022, 1, 1), 0), 0, m * 60 * TicksPerSecond)

\* EnergyLoadFileConfig with its defaults
DefaultCfg ==
    [datetime_column |-> HDate,
     load_column |-> HElectric,
     datetime_format |-> "None",
     target_interval_minutes |-> <<>>,
     interpolation_method |-> "linear",
     treat_negative_as_missing |-> TRUE,
     resample_only_if_irregular |-> TRUE,
     resample_tolerance_seconds |-> 60]

File(exists, headers) == [exists |-> exists, headers |-> headers]

\* datetime decoding: every kind of datetime cell, every datetime_format
ParseUniverse ==
    [files |-> {File(TRUE, <<HDate, HElectric>>)},
     cfgs |-> {[DefaultCfg EXCEPT !.datetime_format = f] :
                  f \in {"None", "auto", "excel_serial", "matlab_serial", P_mdY_HM}},
     dtcells |-> {Blank,
                  Text(P_mdY_HM, At(0)), Text(P_mdY_HM, At(60)),
                  Text(P_Ymd_HM, At(0)), Text(P_Ymd, At(0)), Text(P_mdY, At(0)),
                  Text(P_Ymd_HMS, At(120)), Text("junk", NoDt),
                  Native(At(180)),
                  Num(44562, 1), Num(89125, 2),
                  Num(99999, 1), Num(100000, 1), Num(100001, 1)},
     valcells |-> {Num(10, 1)}]

\* time conditioning: repeated, irregular and gapped timestamps, blank and
\* negative values, every resampling configuration
CondUniverse ==
    [files |-> {File(TRUE, <<HDate, HElectric>>)},
     cfgs |-> {[DefaultCfg EXCEPT !.target_interval_minutes = ti,
                                  !.resample_only_if_irregular = roi,
                                  !.treat_negative_as_missing = neg] :
                  ti \in {<<>>, <<60>>, <<30>>}, roi \in BOOLEAN, neg \in BOOLEAN},
     dtcells |-> {Text(P_mdY_HM, At(m)) : m \in {0, 60, 61, 120}},
     valcells |-> {Blank, Num(-5, 1), Num(10, 1)}]

\* a column of a profile file: its header, the kind of its cells ("num":
\* numbers, NaN where blank; "datetext": text dates, NoDt where the text is no
\* date; "text": other text) and its cells
Col(name, kind, cells) == [name |-> name, kind |-> kind, cells |-> cells]
Profile(exists, cols) == [exists |-> exists, cols |-> cols]

HCF == <<"C", "F">>
Hcf == <<"c", "f">>
HSolarCf == <<"s", "o", "l", "a", "r", "_", "c", "f">>
HFixed == <<"F", "i", "x", "e", "d", " ", "(", "k", "W", "/", "k", "W", ")">>
HNote == <<"N", "o", "t", "e">>

\* 2020-01-01 plus m minutes
At2020(m) == AddDaysTicks(DT(Ymd2Ord(2020, 1, 1), 0), 0, m * 60 * TicksPerSecond)

\* the arguments of one load_solar_into_container call
SolarCall(profile, datetime_column, treat_negative_as_missing) ==
    [profile |-> profile, datetime_column |-> datetime_column,
     treat_negative_as_missing |-> treat_negative_as_missing]

\* the calls: resource profiles that are a missing file, a file without rows,
\* profiles with and without a time column, negative and blank cells, a text
\* column, two headers with one slug, a repeated time, a time column alone, a
\* column without a valid sample
SolarCallUniverse ==
    LET ProfileMissing == Profile(FALSE, <<>>)
        ProfileEmpty == Profile(TRUE, <<Col(HSolarCf, "num", <<>>)>>)
        ProfileNoTime == Profile(TRUE, <<Col(HSolarCf, "num", <<Q(1, 2), Q(1, 4), Q(1, 2)>>)>>)
        ProfileGaps ==
            Profile(TRUE, <<Col(HDate, "datetext", <<At2020(0), At2020(60), At2020(120), At2020(180)>>),
                            Col(HCF, "num", <<Q(1, 10), Q(-1, 2), NaN, Q(2, 5)>>)>>)
        ProfileMixed ==
            Profile(TRUE, <<Col(HDate, "datetext", <<At2020(0), At2020(60)>>),
                            Col(HFixed, "num", <<Q(0, 1), Q(1, 10)>>),
                            Col(HNote, "text", <<"x", "x">>)>>)
        ProfileTextOnly ==
            Profile(TRUE, <<Col(HDate, "datetext", <<At2020(0), At2020(60)>>),
                            Col(HNote, "text", <<"x", "x">>)>>)
        ProfileSameSlug ==
            Profile(TRUE, <<Col(HCF, "num", <<Q(1, 2), Q(1, 4)>>),
                            Col(Hcf, "num", <<Q(3, 4), Q(1, 1)>>)>>)
        ProfileRepeatedTime ==
            Profile(TRUE, <<Col(HDate, "datetext", <<At2020(0), At2020(0), NoDt>>),
                            Col(HCF, "num", <<Q(1, 10), Q(1, 5), Q(1, 2)>>)>>)
        ProfileTimeAlone == Profile(TRUE, <<Col(HDate, "datetext", <<At2020(0), At2020(60)>>)>>)
        ProfileNoValid ==
            Profile(TRUE, <<Col(HDate, "datetext", <<At2020(0), At2020(60)>>),
                            Col(HSolarCf, "num", <<Q(-1, 2), NaN>>)>>)
    IN  {SolarCall(p, <<>>, TRUE) :
            p \in {ProfileMissing, ProfileEmpty, ProfileNoTime, ProfileGaps, ProfileMixed,
                   ProfileTextOnly, ProfileSameSlug, ProfileRepeatedTime, ProfileTimeAlone,
                   ProfileNoValid}}
        \cup {SolarCall(ProfileGaps, <<>>, FALSE), SolarCall(ProfileMixed, <<HDate>>, TRUE)}

\* the whole pipeline on a small load, followed by resource profiles
PipelineUniverse ==
    [files |-> {File(TRUE, <<HDate, HElectric>>),
                File(TRUE, <<HDate, HElectric, HEnergy>>),
                File(TRUE, <<HDate>>),
                File(TRUE, <<HElectric>>),
                File(FALSE, <<>>)},
     cfgs |-> {DefaultCfg, [DefaultCfg EXCEPT !.target_interval_minutes = <<60>>]},
     dtcells |-> {Text(P_mdY_HM, At(m)) : m \in {0, 150}},
     valcells |-> {Num(10, 1)},
     solar_calls |-> SolarCallUniverse]

\* column resolution: header rows with and without the datetime column, the
\* preferred column and unit headers, with a repeated header and with two
\* headers of one slug
ColumnsUniverse ==
    [files |-> {File(TRUE, h) :
                  h \in {<<HDate, HA>>, <<HDate, HB>>, <<HDate, HB, HA>>,
                         <<HDate, HNote>>, <<HDate>>, <<HNote, HA>>, <<HA, HB>>,
                         <<HDate, HA, HA>>,
                         <<HDate, HA, <<"a", " ", "(", "k", "W", ")">> >>}},
     cfgs |-> {[DefaultCfg EXCEPT !.load_column = HA]},
     dtcells |-> {Text(P_mdY_HM, At(m)) : m \in {0, 60}},
     valcells |-> {Num(10, 1), Num(20, 1)}]

\* the row loop: a preferred column without a unit and a kW column, blank and
\* undecodable datetime cells, blank and non-numeric value cells
RowsUniverse ==
    [files |-> {File(TRUE, <<HDate, HNote, HA>>)},
     cfgs |-> {[DefaultCfg EXCEPT !.load_column = HNote]},
     dtcells |-> {Blank, Text(P_mdY_HM, At(0)), Text(P_mdY_HM, At(60)), Text("junk", NoDt)},
     valcells |-> {Blank, Num(10, 1), Text("junk", NoDt)}]

\* the pure functions alone: the pipeline stays idle
SerialUniverse ==
    [files |-> {File(TRUE, <<HDate, HElectric>>)},
     cfgs |-> {DefaultCfg},
     dtcells |-> {},
     valcells |-> {}]

Universe(u) ==
    IF u = "parse" THEN ParseUniverse
    ELSE IF u = "cond" THEN CondUniverse
    ELSE IF u = "serial" THEN SerialUniverse
    ELSE IF u = "columns" THEN ColumnsUniverse
    ELSE IF u = "rows" THEN RowsUniverse
    ELSE PipelineUniverse

---------------------------------------------------------------------------
(* load_energy_load, energy_load.py *)

\* row.get(name): the cell under a header; with a repeated header the last wins
RowGet(row, names, name) ==
    LET at == {i \in 1..Len(names) : names[i] = name /\ i <= Len(row)}
    IN  IF at = {} THEN Blank ELSE row[SetMax(at)]

\* the effective format fixed by the first non-blank datetime cell
SniffFormat(dt_raw) ==
    IF dt_raw.k = "native" THEN "%Y-%m-%d %H:%M:%S"
    ELSE IF dt_raw.k = "num"
         THEN (IF SerialGe(SerialOf(dt_raw.num), _SERIAL_MATLAB_MIN)
               THEN "matlab_serial" ELSE "excel_serial")
    ELSE "%m/%d/%Y %H:%M"

\* a variant that sniffs every row again when the configured format is auto
EffectiveFormat_resniff(dt_raw) ==
    IF cfg.datetime_format \in {"None", "auto", ""} THEN SniffFormat(dt_raw)
    ELSE effective_datetime_format

\* the format a row is decoded under: fixed once, by the first non-blank cell
EffectiveFormat(dt_raw) ==
    IF effective_datetime_format = "None" THEN SniffFormat(dt_raw)
    ELSE effective_datetime_format

\* float(load_val) succeeds
FloatOk(cell) == cell.k = "num"

\* the position of the first load column whose cell does not parse, or 0
FirstBadColumn(row) ==
    LET bad == {i \in 1..Len(load_columns) :
                   LET v == RowGet(row, fieldnames, load_columns[i])
                   IN  v.k # "blank" /\ ~FloatOk(v)}
    IN  IF bad = {} THEN 0 ELSE SetMin(bad)

\* a variant that fills a blank cell with zero
AppendRow_zero_fill(sv, row) ==
    [col \in DOMAIN sv |->
        LET v == RowGet(row, fieldnames, col)
        IN  Append(sv[col], IF v.k = "blank" THEN Q(0, 1) ELSE Q(v.num.n, v.num.d))]

\* series_values[col].append(...) for col in load_columns
AppendRow(sv, row) ==
    [col \in DOMAIN sv |->
        LET v == RowGet(row, fieldnames, col)
            x == IF v.k = "blank" THEN NaN ELSE Q(v.num.n, v.num.d)
            times == Cardinality({i \in 1..Len(load_columns) : load_columns[i] = col})
        IN  sv[col] \o [i \in 1..times |-> x]]

RECURSIVE Product(_)
Product(sets) ==
    IF sets = <<>> THEN {<<>>}
    ELSE {<<x>> \o rest : x \in Head(sets), rest \in Product(Tail(sets))}

\* the rows a file of this universe may hold: one cell per field
RowUniverse ==
    Product([i \in 1..Len(fieldnames) |->
                IF fieldnames[i] = cfg.datetime_column
                THEN Universe(universe).dtcells
                ELSE Universe(universe).valcells])

\* The call starts: the file is opened, its headers read and the columns resolved.
Open ==
    /\ pc = "idle"
    /\ LET names == _deduplicate_headers(file.headers)
           res   == _resolve_load_columns(names, cfg.load_column)
       IN  IF ~file.exists
           THEN /\ pc' = "error"
                /\ error' = Raise("FileNotFoundError", "Energy load file not found", 0, <<>>, TRUE, FALSE)
                /\ UNCHANGED <<fieldnames, load_columns, series_units,
                               effective_datetime_format, series_values>>
           ELSE IF cfg.datetime_column \notin Range(names)
           THEN /\ pc' = "error"
                /\ error' = RaiseFound("ValueError", "Missing required datetime column", cfg.datetime_column, names)
                /\ fieldnames' = names
                /\ UNCHANGED <<load_columns, series_units,
                               effective_datetime_format, series_values>>
           ELSE IF ~res.ok
           THEN /\ pc' = "error"
                /\ error' = RaiseFound("ValueError", "Missing required load column", cfg.load_column, names)
                /\ fieldnames' = names
                /\ UNCHANGED <<load_columns, series_units,
                               effective_datetime_format, series_values>>
           ELSE /\ pc' = "rows"
                /\ fieldnames' = names
                /\ load_columns' = res.cols
                /\ series_values' = [col \in Range(res.cols) |-> <<>>]
                /\ series_units' = [col \in Range(res.cols) |-> _infer_units_from_header(col)]
                /\ effective_datetime_format' =
                       (IF cfg.datetime_format \in {"None", "auto", ""} THEN "None"
                        ELSE cfg.datetime_format)
                /\ UNCHANGED error
    /\ UNCHANGED <<universe, cfg, file, rows, datetimes, container, solarVars, harnessVars>>

\* One iteration of the row loop on the next row of the file.
ParseRowOf(row) ==
    LET row_idx == Len(rows) + 2
        dt_raw  == RowGet(row, fieldnames, cfg.datetime_column)
        fixed   == EffectiveFormat(dt_raw)
        parsed  == _parse_datetime_cell(dt_raw, fixed, row_idx)
        bad     == FirstBadColumn(row)
    IN  /\ rows' = Append(rows, row)
        /\ IF dt_raw.k = "blank"
           THEN UNCHANGED <<pc, error, effective_datetime_format, datetimes, series_values>>
           ELSE /\ effective_datetime_format' = fixed
                /\ IF ~parsed.ok
                   THEN /\ pc' = "error"
                        /\ error' = Raise("ValueError", parsed.err, parsed.row, <<>>,
                                          parsed.path, parsed.raw)
                        /\ UNCHANGED <<datetimes, series_values>>
                   ELSE IF bad # 0
                   THEN /\ pc' = "error"
                        /\ error' = Raise("ValueError", "failed float parse", row_idx,
                                          load_columns[bad], FALSE, TRUE)
                        /\ UNCHANGED <<datetimes, series_values>>
                   ELSE /\ datetimes' = Append(datetimes, parsed.dt)
                        /\ series_values' = AppendRow(series_values, row)
                        /\ UNCHANGED <<pc, error>>

ParseRow ==
    /\ pc = "rows"
    /\ Len(rows) < MaxRows
    /\ \E row \in RowUniverse : ParseRowOf(row)
    /\ UNCHANGED <<universe, cfg, file, fieldnames, load_columns, series_units,
                   container, solarVars, harnessVars>>

\* zip(datetimes, *series_matrix), sorted by datetime
PairedRows ==
    LET n == SetMin({Len(datetimes)} \cup {Len(series_values[c]) : c \in DOMAIN series_values})
    IN  StableSort([i \in 1..n |->
                       [dt |-> datetimes[i],
                        vals |-> [k \in 1..Len(load_columns) |->
                                     series_values[load_columns[k]][i]]]])

\* regular-step check: the first difference in hours, None under two rows
DtHours(dts) ==
    IF Len(dts) >= 2
    THEN QAdd(QInt((dts[2].ord - dts[1].ord) * 24),
              Q(dts[2].t - dts[1].t, 3600 * TicksPerSecond))
    ELSE NoneQ

\* timeseries[key] = sorted_series[col] for col in load_columns
RECURSIVE PutLoadSeries(_, _, _)
PutLoadSeries(ts, cols, series) ==
    IF cols = <<>> THEN ts
    ELSE PutLoadSeries(
            Put(ts, Key("electricity_load__", _normalize_series_key(Head(cols))),
                series[Head(cols)]),
            Tail(cols), series)

\* the container built from the parsed rows
BuildContainer ==
    LET paired == PairedRows
        sorted_dts == [i \in 1..Len(paired) |-> paired[i].dt]
        sorted_series ==
            [col \in Range(load_columns) |->
                LET idx == SetMax({k \in 1..Len(load_columns) : load_columns[k] = col})
                IN  [i \in 1..Len(paired) |-> paired[i].vals[idx]]]
        cond == _condition_time_series(sorted_dts, sorted_series, cfg)
        dts == cond.datetimes
        dt_hours == DtHours(dts)
        energy == [col \in DOMAIN cond.series |->
                      IF dt_hours # NoneQ /\ series_units[col] = "kW"
                      THEN [i \in 1..Len(cond.series[col]) |->
                               QMul(cond.series[col][i], dt_hours)]
                      ELSE cond.series[col]]
        base == (KeyDatetime :> dts) @@
                (KeyTimeSerial :> [i \in 1..Len(dts) |-> _datetime_to_matlab_serial(dts[i])])
    IN  [indices |-> [time |-> [i \in 1..Len(dts) |-> i - 1]],
         timeseries |-> PutLoadSeries(base, load_columns, energy),
         static |->
            [time_step_hours |-> dt_hours,
             load_units |-> "kWh",
             load_units_by_series |->
                [k \in {_normalize_series_key(c) : c \in Range(load_columns)} |-> "kWh"],
             load_columns |-> load_columns,
             electricity_load_keys |->
                [k \in 1..Len(load_columns) |->
                    Key("electricity_load__", _normalize_series_key(load_columns[k]))]],
         tech_params |-> <<>>]

\* The file is exhausted: sort, condition, convert, assemble, validate, return.
Finish ==
    /\ pc = "rows"
    /\ IF datetimes = <<>>
       THEN /\ pc' = "error"
            /\ error' = Raise("ValueError", "No load rows were parsed", 0, <<>>, TRUE, FALSE)
            /\ UNCHANGED container
       ELSE LET built == BuildContainer
                bad   == validate_minimum_fields(built)
            IN  IF bad # ""
                THEN /\ pc' = "error"
                     /\ error' = Raise("ValueError", bad, 0, <<>>, FALSE, FALSE)
                     /\ UNCHANGED container
                ELSE /\ pc' = "done"
                     /\ container' = built
                     /\ UNCHANGED error
    /\ UNCHANGED <<universe, cfg, file, fieldnames, load_columns, series_units,
                   effective_datetime_format, rows, datetimes, series_values,
                   solarVars, harnessVars>>

---------------------------------------------------------------------------
(* load_solar_into_container, resource_profiles.py *)

MaxSolarCalls == 2

_TIME_COLUMN_CANDIDATES ==
    << <<"D", "a", "t", "e">>, <<"T", "i", "m", "e">>,
       <<"d", "a", "t", "e", "t", "i", "m", "e">>,
       <<"T", "i", "m", "e", "s", "t", "a", "m", "p">>,
       <<"d", "a", "t", "e">>, <<"t", "i", "m", "e">> >>

_ROW_COUNT_TO_INTERVAL_MINUTES ==
    (8760 :> 60) @@ (17520 :> 30) @@ (35040 :> 15) @@ (105120 :> 5)

\* _normalize_series_key of resource_profiles.py: no demand -> load rewrite
solar_normalize_series_key(name) == StripUnderscores(SubNonAlnum(LowerStr(name), 1))

\* the same with the quotient truncated instead of rounded
_infer_interval_minutes_from_row_count_truncating(n) ==
    IF n \in DOMAIN _ROW_COUNT_TO_INTERVAL_MINUTES
    THEN [ok |-> TRUE, v |-> _ROW_COUNT_TO_INTERVAL_MINUTES[n]]
    ELSE IF n <= 0 \/ n > 525600 THEN [ok |-> FALSE, v |-> 0]
    ELSE [ok |-> TRUE, v |-> Max((60 * 8760) \div n, 1)]

\* returns [ok, v]; ok = FALSE is the ValueError
_infer_interval_minutes_from_row_count(n) ==
    IF n \in DOMAIN _ROW_COUNT_TO_INTERVAL_MINUTES
    THEN [ok |-> TRUE, v |-> _ROW_COUNT_TO_INTERVAL_MINUTES[n]]
    ELSE IF n <= 0 \/ n > 525600 THEN [ok |-> FALSE, v |-> 0]
    ELSE [ok |-> TRUE, v |-> Max(RoundHalfEven(60 * 8760, n), 1)]

_build_synthetic_year_index(n_rows, interval_minutes) ==
    LET start == DT(Ymd2Ord(2021, 1, 1), 0)
        freq  == (IF interval_minutes < 60 THEN interval_minutes ELSE 60)
                     * 60 * TicksPerSecond
    IN  [i \in 1..n_rows |-> AddDaysTicks(start, 0, (i - 1) * freq)]

\* the time since the start of dt's year; in ticks, not minutes, so that the
\* value stays an integer
_time_of_year_minutes(dt) == DiffTicks(dt, DT(Ymd2Ord(Ord2Ymd(dt.ord)[1], 1, 1), 0))

\* the time column as datetimes, NoDt for NaT
_parse_time_column(col) ==
    IF col.kind = "num" /\ \E i \in 1..Len(col.cells) : ~IsNaN(col.cells[i])
    THEN LET first == col.cells[SetMin({i \in 1..Len(col.cells) : ~IsNaN(col.cells[i])})]
             excel == first.n < 100000 * first.d
         IN  [i \in 1..Len(col.cells) |->
                IF IsNaN(col.cells[i]) THEN NoDt
                ELSE IF excel THEN _excel_serial_to_datetime(SerialOf(col.cells[i]))
                ELSE _matlab_serial_to_datetime(SerialOf(col.cells[i]))]
    ELSE IF col.kind = "datetext" THEN col.cells
    ELSE [i \in 1..Len(col.cells) |-> NoDt]

NumRows(cols) == IF cols = <<>> THEN 0 ELSE Len(cols[1].cells)

RECURSIVE SortedSeq(_)
SortedSeq(S) == IF S = {} THEN <<>> ELSE <<SetMin(S)>> \o SortedSeq(S \ {SetMin(S)})

Take(xs, idx) == [j \in 1..Len(idx) |-> xs[idx[j]]]

\* df.dropna(how="all", axis=0).dropna(how="all", axis=1)
DropNa(cols) ==
    LET RowAllNaN(i) == \A c \in 1..Len(cols) :
                            cols[c].kind = "num" /\ IsNaN(cols[c].cells[i])
        keep == SortedSeq({i \in 1..NumRows(cols) : ~RowAllNaN(i)})
        kept == [c \in 1..Len(cols) |-> [cols[c] EXCEPT !.cells = Take(@, keep)]]
        HasValue(col) == ~(/\ col.kind = "num"
                           /\ \A i \in 1..Len(col.cells) : IsNaN(col.cells[i]))
    IN  SelectSeq(kept, HasValue)

\* the position of the time column among the columns, 0 for none
DetectTimeColumn(cols, datetime_column) ==
    LET raw_cols == [i \in 1..Len(cols) |-> cols[i].name]
        IndexOf(name) == SetMin({i \in 1..Len(raw_cols) : raw_cols[i] = name})
        cands == {k \in 1..Len(_TIME_COLUMN_CANDIDATES) :
                     _TIME_COLUMN_CANDIDATES[k] \in Range(raw_cols)}
        first == cols[1]
        sample == {i \in 1..Len(first.cells) : ~IsNaN(first.cells[i])}
    IN  IF datetime_column # <<>> /\ datetime_column[1] \in Range(raw_cols)
        THEN IndexOf(datetime_column[1])
        ELSE IF cands # {} THEN IndexOf(_TIME_COLUMN_CANDIDATES[SetMin(cands)])
        ELSE IF first.kind = "num"
        THEN (IF sample # {} /\ first.cells[SetMin(sample)].n
                                   >= 20000 * first.cells[SetMin(sample)].d
              THEN 1 ELSE 0)
        ELSE IF first.kind = "datetext" /\ \E i \in 1..Len(first.cells) : first.cells[i] # NoDt
        THEN 1
        ELSE 0

\* a variant that stores the profile column as it is, without aligning it
ReindexNearest_unaligned(idx, vals, target) == vals

\* Series.reindex(target, method="nearest") on a unique monotonic index: the
\* label nearest in value, the larger label on a tie; NaN on an empty index
ReindexNearest(idx, vals, target) ==
    [j \in 1..Len(target) |->
        IF idx = <<>> THEN NaN
        ELSE LET dist(i) == Abs(idx[i] - target[j])
                 best == SetMin({dist(i) : i \in 1..Len(idx)})
                 at   == {i \in 1..Len(idx) : dist(i) = best}
                 pick == CHOOSE i \in at : \A k \in at : idx[k] <= idx[i]
             IN  vals[pick]]

IsUnique(idx) == \A i, j \in 1..Len(idx) : i # j => idx[i] # idx[j]
IsMonotonic(idx) ==
    \/ \A i, j \in 1..Len(idx) : i < j => idx[i] <= idx[j]
    \/ \A i, j \in 1..Len(idx) : i < j => idx[i] >= idx[j]

RECURSIVE PutSolarSeries(_, _, _, _)
PutSolarSeries(ts, cols, aligned, c) ==
    IF c > Len(cols) THEN ts
    ELSE PutSolarSeries(
            Put(ts, Key("solar_production__", solar_normalize_series_key(cols[c].name)),
                aligned[c]),
            cols, aligned, c + 1)

\* a variant that also stores the default time step it fell back to
SolarWrite_storesTimeStep(data, numeric_cols, aligned) ==
    [data EXCEPT
        !.timeseries = PutSolarSeries(@, numeric_cols, aligned, 1),
        !.static =
            Put(Put(Put(Put(@, "time_step_hours",
                            IF @.time_step_hours = NoneQ THEN QInt(1) ELSE @.time_step_hours),
                        "solar_production_keys",
                        [c \in 1..Len(numeric_cols) |->
                            Key("solar_production__",
                                solar_normalize_series_key(numeric_cols[c].name))]),
                    "solar_production_units", "kWh/kW"),
                "solar_production_columns",
                [c \in 1..Len(numeric_cols) |-> numeric_cols[c].name])]

\* the writes into the container
SolarWrite(data, numeric_cols, aligned) ==
    [data EXCEPT
        !.timeseries = PutSolarSeries(@, numeric_cols, aligned, 1),
        !.static =
            Put(Put(Put(@, "solar_production_keys",
                        [c \in 1..Len(numeric_cols) |->
                            Key("solar_production__",
                                solar_normalize_series_key(numeric_cols[c].name))]),
                    "solar_production_units", "kWh/kW"),
                "solar_production_columns",
                [c \in 1..Len(numeric_cols) |-> numeric_cols[c].name])]

SolarOk(data) == [err |-> NoError, data |-> data]

\* a variant that has already written the unit when it raises
SolarRaise_after_writing_units(data, type, msg) ==
    [err |-> Raise(type, msg, 0, <<>>, TRUE, FALSE),
     data |-> [data EXCEPT !.static = Put(@, "solar_production_units", "kWh/kW")]]

SolarRaise(data, type, msg) ==
    [err |-> Raise(type, msg, 0, <<>>, TRUE, FALSE), data |-> data]

\* one column aligned to the target times, filtered and converted to kWh/kW
AlignColumn(index, cells, target_minutes, treat_negative_as_missing, interpolation_method, dt_hours) ==
    LET reindexed == IF index = target_minutes THEN cells
                     ELSE ReindexNearest(index, cells, target_minutes)
        filtered  == Interpolate(IF treat_negative_as_missing
                                 THEN MaskNegative(reindexed) ELSE reindexed,
                                 interpolation_method)
    IN  [i \in 1..Len(filtered) |-> QMul(filtered[i], dt_hours)]

\* target_minutes, clipped to the last solar time (not clipped on an empty index)
ClipTargets(target_datetimes, index) ==
    [j \in 1..Len(target_datetimes) |->
        IF index = <<>> THEN _time_of_year_minutes(target_datetimes[j])
        ELSE Min(_time_of_year_minutes(target_datetimes[j]), SetMax(Range(index)))]

\* data.static.get("time_step_hours"), 1.0 for None
SolarDtHours(data) ==
    IF data.static.time_step_hours = NoneQ THEN QInt(1) ELSE data.static.time_step_hours

IsNumericColumn(col) == col.kind = "num"

\* the reindexing, the filter, the conversion and the writes
SolarReindex(data, numeric_cols, index, target_minutes, treat_negative_as_missing, interpolation_method) ==
    IF index # target_minutes /\ ~IsUnique(index)
    THEN SolarRaise(data, "ValueError", "cannot reindex on an axis with duplicate labels")
    ELSE IF index # target_minutes /\ ~IsMonotonic(index)
    THEN SolarRaise(data, "ValueError", "index must be monotonic increasing or decreasing")
    ELSE SolarOk(SolarWrite(data, numeric_cols,
            [c \in 1..Len(numeric_cols) |->
                AlignColumn(index, numeric_cols[c].cells, target_minutes,
                            treat_negative_as_missing, interpolation_method,
                            SolarDtHours(data))]))

\* the column checks, then the alignment to the load time vector
SolarAlign(data, solar_df, index, treat_negative_as_missing, interpolation_method) ==
    IF solar_df = <<>>
    THEN SolarRaise(data, "ValueError", "No solar data columns")
    ELSE IF SelectSeq(solar_df, IsNumericColumn) = <<>>
    THEN SolarRaise(data, "ValueError", "No numeric solar columns")
    ELSE SolarReindex(data, SelectSeq(solar_df, IsNumericColumn), index,
                      ClipTargets(data.timeseries[KeyDatetime], index),
                      treat_negative_as_missing, interpolation_method)

\* the rows whose time is not NaT
KeepRows(times) == SortedSeq({i \in 1..Len(times) : times[i] # NoDt})

\* the solar columns indexed by time of year, rows without a time dropped
SolarIndexed(data, solar_cols, times, treat_negative_as_missing, interpolation_method) ==
    SolarAlign(data,
               [c \in 1..Len(solar_cols) |->
                   [solar_cols[c] EXCEPT !.cells = Take(@, KeepRows(times))]],
               [j \in 1..Len(KeepRows(times)) |->
                   _time_of_year_minutes(times[KeepRows(times)[j]])],
               treat_negative_as_missing, interpolation_method)

\* the columns other than the time column
SolarColumns(df, time_col) ==
    [c \in 1..Len(SortedSeq((1..Len(df)) \ {time_col})) |->
        df[SortedSeq((1..Len(df)) \ {time_col})[c]]]

\* the time of each row: parsed from the time column, or synthetic
SolarTimed(data, df, time_col, treat_negative_as_missing, interpolation_method) ==
    IF time_col = 0 /\ ~_infer_interval_minutes_from_row_count(NumRows(df)).ok
    THEN SolarRaise(data, "ValueError", "Cannot infer time step from row count")
    ELSE SolarIndexed(data, SolarColumns(df, time_col),
                      IF time_col # 0 THEN _parse_time_column(df[time_col])
                      ELSE _build_synthetic_year_index(
                               NumRows(df),
                               _infer_interval_minutes_from_row_count(NumRows(df)).v),
                      treat_negative_as_missing, interpolation_method)

\* the frame read from the file
SolarFrame(data, df, datetime_column, treat_negative_as_missing, interpolation_method) ==
    IF df = <<>> \/ NumRows(df) = 0
    THEN SolarRaise(data, "ValueError", "No data rows")
    ELSE SolarTimed(data, df, DetectTimeColumn(df, datetime_column),
                    treat_negative_as_missing, interpolation_method)

\* returns [err, data]: the exception raised (or NoError) and the container
\* as the call leaves it
load_solar_into_container(data, profile, datetime_column, treat_negative_as_missing, interpolation_method) ==
    IF ~profile.exists
    THEN SolarRaise(data, "FileNotFoundError", "Solar file not found")
    ELSE IF KeyDatetime \notin DOMAIN data.timeseries
    THEN SolarRaise(data, "KeyError", "datetime")
    ELSE IF data.timeseries[KeyDatetime] = <<>>
    THEN SolarRaise(data, "ValueError", "DataContainer has no time vector")
    ELSE SolarFrame(data, DropNa(profile.cols), datetime_column,
                    treat_negative_as_missing, interpolation_method)

\* One call of load_solar_into_container on the loaded container.
Solar ==
    /\ pc = "done"
    /\ solar_calls < MaxSolarCalls
    /\ \E args \in Universe(universe).solar_calls :
          LET res == load_solar_into_container(container, args.profile,
                                               args.datetime_column,
                                               args.treat_negative_as_missing, "linear")
          IN  /\ container' = res.data
              /\ solar_error' = res.err
    /\ solar_calls' = solar_calls + 1
    /\ UNCHANGED <<loadVars, harnessVars>>

---------------------------------------------------------------------------
(* The pure functions applied to bounded inputs *)

NoCall == [fn |-> "none", dt |-> NoDt, serial |-> Serial(0, 0), cell |-> Blank, fmt |-> "", names |-> <<>>, configured_column |-> <<>>, dts |-> <<>>, xs |-> <<>>, cfg |-> DefaultCfg, times |-> <<>>, years |-> 0, n |-> 0]
NoRet == [dt |-> NoDt, serial |-> Serial(0, 0), ok |-> TRUE, err |-> "", names |-> <<>>, dts |-> <<>>, xs |-> <<>>, resampled |-> FALSE, xs_target_shifted |-> <<>>, xs_profile_shifted |-> <<>>, type |-> "", v |-> 0]

\* times of day: midnight, half a second, a second and a half, noon, the last
\* tick and the last half second of the day
TickInputs ==
    {0, TicksPerSecond \div 2, TicksPerSecond + (TicksPerSecond \div 2),
     TicksPerDay \div 2, TicksPerDay - 1, TicksPerDay - (TicksPerSecond \div 2)}

SerialInputs ==
    {Serial(d, ft) : d \in {1, 59, 60, 61, 62, 367, 44562, 99999, 100000, 100001, 738522},
                     ft \in TickInputs}

InstantInputs ==
    {DT(o, t) : o \in {1, Ymd2Ord(1900, 2, 28), Ymd2Ord(2020, 2, 29),
                       Ymd2Ord(2021, 12, 31), Ymd2Ord(2022, 1, 1), Ymd2Ord(9999, 12, 30)},
                t \in TickInputs}

CellInputs ==
    {Blank, Native(At(0)), Text(P_mdY_HM, At(0)), Text(P_Ymd_HM, At(0)), Text(P_Ymd, At(0)),
     Text(P_mdY, At(0)), Text(P_Ymd_HMS, At(0)), Text("junk", NoDt),
     Num(60, 1), Num(44562, 1), Num(99999, 1), Num(199999, 2), Num(100000, 1),
     Num(200001, 2), Num(100001, 1), Num(738522, 1)}

FormatInputs == {"auto", "excel_serial", "matlab_serial", P_mdY_HM, P_Ymd}

ExcelDecode ==
    /\ \E s \in SerialInputs :
          /\ call' = [NoCall EXCEPT !.fn = "_excel_serial_to_datetime", !.serial = s]
          /\ ret' = [NoRet EXCEPT !.dt = _excel_serial_to_datetime(s)]
    /\ UNCHANGED <<loadVars, container, solarVars>>

MatlabDecode ==
    /\ \E s \in SerialInputs :
          /\ call' = [NoCall EXCEPT !.fn = "_matlab_serial_to_datetime", !.serial = s]
          /\ ret' = [NoRet EXCEPT !.dt = _matlab_serial_to_datetime(s)]
    /\ UNCHANGED <<loadVars, container, solarVars>>

MatlabEncode ==
    /\ \E dt \in InstantInputs :
          /\ call' = [NoCall EXCEPT !.fn = "_datetime_to_matlab_serial", !.dt = dt]
          /\ ret' = [NoRet EXCEPT !.serial = _datetime_to_matlab_serial(dt)]
    /\ UNCHANGED <<loadVars, container, solarVars>>

\* the serial just produced by the encoder is decoded again
MatlabRoundTrip ==
    /\ call.fn = "_datetime_to_matlab_serial"
    /\ call' = [call EXCEPT !.fn = "roundtrip", !.serial = ret.serial]
    /\ ret' = [NoRet EXCEPT !.dt = _matlab_serial_to_datetime(ret.serial)]
    /\ UNCHANGED <<loadVars, container, solarVars>>

ParseCell ==
    /\ \E cell \in CellInputs, fmt \in FormatInputs :
          LET res == _parse_datetime_cell(cell, fmt, 2)
          IN  /\ call' = [NoCall EXCEPT !.fn = "_parse_datetime_cell", !.cell = cell, !.fmt = fmt]
              /\ ret' = [NoRet EXCEPT !.dt = res.dt, !.ok = res.ok, !.err = res.err]
    /\ UNCHANGED <<loadVars, container, solarVars>>

MaxHeaders == 3

\* all sequences over a set with at most n elements
RECURSIVE SeqsUpTo(_, _)
SeqsUpTo(S, n) ==
    IF n = 0 THEN {<<>>}
    ELSE LET shorter == SeqsUpTo(S, n - 1)
         IN  shorter \cup {Append(q, x) : q \in shorter, x \in S}

\* header rows: repeated names, a name that already carries a " [2]" suffix,
\* unit patterns in either case, a unit outside parentheses
HeaderInputs ==
    SeqsUpTo({HDate, HA, HA \o <<" ", "[", "2", "]">>, HB, <<"k", "W">>}, MaxHeaders)

Deduplicate ==
    /\ call = NoCall
    /\ \E names \in HeaderInputs :
          /\ call' = [NoCall EXCEPT !.fn = "_deduplicate_headers", !.names = names]
          /\ ret' = [NoRet EXCEPT !.names = _deduplicate_headers(names)]
    /\ UNCHANGED <<loadVars, container, solarVars>>

ResolveColumns ==
    /\ call = NoCall
    \* preferred names: one that matches the unit pattern, one that does not,
    \* one that no header row holds
    /\ \E names \in HeaderInputs, configured_column \in {HA, <<"k", "W">>, HNote} :
          LET res == _resolve_load_columns(names, configured_column)
          IN  /\ call' = [NoCall EXCEPT !.fn = "_resolve_load_columns", !.names = names,
                                        !.configured_column = configured_column]
              /\ ret' = [NoRet EXCEPT !.ok = res.ok, !.names = res.cols]
    /\ UNCHANGED <<loadVars, container, solarVars>>

\* sorted timestamp lists with their values: on and off the hourly grid,
\* repeated timestamps, gaps, missing and negative values
ConditionInputs ==
    LET minutes == {0, 60, 61, 120}
        values == {NaN, Q(-5, 1), Q(10, 1)}
        sorted == {m \in SeqsUpTo(minutes, MaxRows) :
                      \A i \in 1..(Len(m) - 1) : m[i] <= m[i + 1]}
    IN  {[dts |-> [i \in 1..Len(m) |-> At(m[i])], xs |-> x] :
            m \in sorted, x \in SeqsUpTo(values, MaxRows)}

\* _condition_time_series on one column
ConditionOf(dts, xs, c) ==
    LET out == _condition_time_series(dts, [col \in {"v"} |-> xs], c)
    IN  [NoRet EXCEPT !.dts = out.datetimes, !.xs = out.series["v"],
                      !.resampled = do_resample(dts, c)]

Condition ==
    /\ call = NoCall
    \* no target interval, targets below, at and above an hour
    /\ \E in \in ConditionInputs, ti \in {<<>>, <<30>>, <<60>>, <<120>>}, roi \in BOOLEAN :
          LET c == [DefaultCfg EXCEPT !.target_interval_minutes = ti,
                                      !.resample_only_if_irregular = roi]
          IN  /\ Len(in.dts) = Len(in.xs)
              /\ call' = [NoCall EXCEPT !.fn = "_condition_time_series", !.dts = in.dts,
                                        !.xs = in.xs, !.cfg = c]
              /\ ret' = ConditionOf(in.dts, in.xs, c)
    /\ UNCHANGED <<loadVars, container, solarVars>>

\* the output of the first application is conditioned again
ConditionAgain ==
    /\ call.fn = "_condition_time_series"
    /\ call' = [call EXCEPT !.fn = "again", !.dts = ret.dts, !.xs = ret.xs]
    /\ ret' = ConditionOf(ret.dts, ret.xs, call.cfg)
    /\ UNCHANGED <<loadVars, container, solarVars>>

\* a target axis and the time column of a profile, at midnight of days before
\* and after the end of February, each with its copy moved by whole calendar
\* years (same month, day and time of day)
AlignInputs ==
    LET days == << <<1, 1>>, <<2, 28>>, <<3, 1>>, <<3, 2>>, <<12, 31>> >>
        Day(y, k) == DT(Ymd2Ord(y, days[k][1], days[k][2]), 0)
        picks == {p \in SeqsUpTo(1..Len(days), MaxRows) :
                     p # <<>> /\ \A i \in 1..(Len(p) - 1) : p[i] < p[i + 1]}
    IN  {[target |-> [i \in 1..Len(p) |-> Day(ty, p[i])],
          target_shifted |-> [i \in 1..Len(p) |-> Day(ty + years, p[i])],
          times |-> [k \in 1..Len(days) |-> Day(py, k)],
          times_shifted |-> [k \in 1..Len(days) |-> Day(py + years, k)],
          years |-> years] :
            p \in picks, ty \in {2021, 2022}, py \in {2020, 2021}, years \in {-1, 1, 2}}

\* the series load_solar_into_container stores for a capacity factor column
\* with the given time column, on a container with the given time vector
AlignedSeries(target_datetimes, times) ==
    LET data == [NoContainer EXCEPT
                    !.timeseries = (KeyDatetime :> target_datetimes),
                    !.static = [time_step_hours |-> QInt(1)]]
        profile == Profile(TRUE, <<Col(HDate, "datetext", times),
                                   Col(HCF, "num", [k \in 1..Len(times) |-> Q(k, 10)])>>)
        res == load_solar_into_container(data, profile, <<>>, TRUE, "linear")
    IN  res.data.timeseries[Key("solar_production__", solar_normalize_series_key(HCF))]

\* solar_df[col].reindex(target_minutes, method="nearest") as the loader calls
\* it: the column of a profile with the given times, on the given time vector
AlignNearest ==
    /\ call = NoCall
    /\ \E in \in AlignInputs, shifted \in BOOLEAN :
          LET target_datetimes == IF shifted THEN in.target_shifted ELSE in.target
              index == [k \in 1..Len(in.times) |-> _time_of_year_minutes(in.times[k])]
              cells == [k \in 1..Len(in.times) |-> Q(k, 10)]
          IN  /\ call' = [NoCall EXCEPT !.fn = "reindex", !.dts = target_datetimes,
                                        !.times = in.times, !.xs = cells]
              /\ ret' = [NoRet EXCEPT
                            !.xs = ReindexNearest(index, cells,
                                                  ClipTargets(target_datetimes, index))]
    /\ UNCHANGED <<loadVars, container, solarVars>>

\* load_solar_into_container(data, path, solar_columns=[...]) on a profile
\* with a time column and two numeric columns. solar_columns is a parameter of
\* the signature that the body never reads, so the call is the call without it.
AlignListedColumns ==
    /\ call = NoCall
    /\ \E in \in {a \in AlignInputs : a.years = 1},
          solar_columns \in {<<HCF>>, <<HFixed>>, <<HCF, HFixed>>} :
          LET data == [NoContainer EXCEPT
                          !.timeseries = (KeyDatetime :> in.target),
                          !.static = [time_step_hours |-> QInt(1)]]
              profile == Profile(TRUE, <<Col(HDate, "datetext", in.times),
                                         Col(HCF, "num", [k \in 1..Len(in.times) |-> Q(k, 10)]),
                                         Col(HFixed, "num", [k \in 1..Len(in.times) |-> Q(1, 2)])>>)
              res == load_solar_into_container(data, profile, <<>>, TRUE, "linear")
          IN  /\ call' = [NoCall EXCEPT !.fn = "listed", !.dts = in.target,
                                        !.times = in.times, !.names = solar_columns]
              /\ ret' = [NoRet EXCEPT !.ok = (res.err = NoError), !.type = res.err.type,
                                      !.err = res.err.msg]
              /\ container' = res.data
    /\ UNCHANGED <<loadVars, solarVars>>

\* del d[k] on a dict modelled as a function
Drop(d, k) == [x \in (DOMAIN d) \ {k} |-> d[x]]

\* containers handed to validate_minimum_fields: the container load_energy_load
\* assembles for an hourly axis and one series, and that container with one
\* entry removed, emptied or altered
ValidateInputs ==
    LET key == Key("electricity_load__", <<"a">>)
        whole(dts) ==
            [indices |-> [time |-> [i \in 1..Len(dts) |-> i - 1]],
             timeseries |-> (KeyDatetime :> dts) @@
                            (KeyTimeSerial :> [i \in 1..Len(dts) |-> _datetime_to_matlab_serial(dts[i])]) @@
                            (key :> [i \in 1..Len(dts) |-> Q(i, 1)]),
             static |-> [time_step_hours |-> DtHours(dts), load_units |-> "kWh",
                         load_columns |-> <<HA>>, electricity_load_keys |-> <<key>>],
             tech_params |-> <<>>]
        variants(c) ==
            {c,
             [c EXCEPT !.indices = Drop(@, "time")],
             [c EXCEPT !.indices.time = Tail(@)],
             [c EXCEPT !.timeseries = Drop(@, KeyTimeSerial)],
             [c EXCEPT !.timeseries = Drop(@, KeyDatetime)],
             [c EXCEPT !.timeseries = Drop(@, key)],
             [c EXCEPT !.timeseries[key] = Tail(@)],
             [c EXCEPT !.static = Drop(@, "electricity_load_keys")],
             [c EXCEPT !.static.electricity_load_keys = <<>>],
             [c EXCEPT !.static = Drop(@, "time_step_hours")],
             [c EXCEPT !.static.time_step_hours = QInt(2)]}
    IN  UNION {variants(whole([i \in 1..Len(in.target) |-> DT(in.target[1].ord, (i - 1) * 3600 * TicksPerSecond)])) :
                  in \in {a \in AlignInputs : a.years = 1}}

\* container.validate_minimum_fields() on one container
Validate ==
    /\ call = NoCall
    /\ \E c \in ValidateInputs :
          /\ call' = [NoCall EXCEPT !.fn = "validate_minimum_fields"]
          /\ ret' = [NoRet EXCEPT !.ok = (validate_minimum_fields(c) = ""),
                                  !.err = validate_minimum_fields(c)]
          /\ container' = c
    /\ UNCHANGED <<loadVars, solarVars>>

\* row counts of profiles without a time column: short files, the four listed
\* counts, counts whose quotient is a tie (2.5 and 1.5), one row per minute,
\* and more than one row per minute
RowCountInputs ==
    {1, 2, 7, 4380, 8760, 8761, 17520, 35040, 105120, 210240, 350400, 525600, 525601, 600000}

\* _infer_interval_minutes_from_row_count on one row count
InferInterval ==
    /\ call = NoCall
    /\ \E n \in RowCountInputs :
          LET res == _infer_interval_minutes_from_row_count(n)
          IN  /\ call' = [NoCall EXCEPT !.fn = "infer", !.n = n]
              /\ ret' = [NoRet EXCEPT !.ok = res.ok, !.v = res.v]
    /\ UNCHANGED <<loadVars, container, solarVars>>

\* row counts of the synthetic axis: one, two and 24 rows, the hourly year,
\* and one row more than the hourly year
SyntheticRowCounts == {1, 2, 24, 8760, 8761}

\* the branch of load_solar_into_container for a profile without a time
\* column: the interval from the row count, then the synthetic index
SyntheticAxis ==
    /\ call = NoCall
    /\ \E n_rows \in SyntheticRowCounts :
          LET res == _infer_interval_minutes_from_row_count(n_rows)
          IN  /\ call' = [NoCall EXCEPT !.fn = "synthetic", !.n = n_rows]
              /\ ret' = [NoRet EXCEPT
                            !.ok = res.ok, !.v = res.v,
                            !.dts = IF res.ok THEN _build_synthetic_year_index(n_rows, res.v)
                                    ELSE <<>>]
    /\ UNCHANGED <<loadVars, container, solarVars>>

\* load_solar_into_container on a container the primary load has not filled:
\* DataContainer() as constructed, or one whose datetime list is empty
AlignWithoutAxis ==
    /\ call = NoCall
    /\ \E in \in AlignInputs, fresh \in BOOLEAN :
          LET data == IF fresh THEN NoContainer
                      ELSE [NoContainer EXCEPT !.timeseries = (KeyDatetime :> <<>>)]
              profile == Profile(TRUE, <<Col(HDate, "datetext", in.times),
                                         Col(HCF, "num", [k \in 1..Len(in.times) |-> Q(k, 10)])>>)
              res == load_solar_into_container(data, profile, <<>>, TRUE, "linear")
          IN  /\ call' = [NoCall EXCEPT !.fn = "no_axis", !.times = in.times,
                                        !.fmt = IF fresh THEN "fresh" ELSE "empty"]
              /\ ret' = [NoRet EXCEPT !.ok = (res.err = NoError), !.type = res.err.type,
                                      !.err = res.err.msg]
    /\ UNCHANGED <<loadVars, container, solarVars>>

\* one profile aligned to an axis, to the axis moved by whole years, and the
\* profile moved by whole years aligned to the axis
AlignYears ==
    /\ call = NoCall
    /\ \E in \in AlignInputs :
          /\ call' = [NoCall EXCEPT !.fn = "load_solar_into_container", !.dts = in.target,
                                    !.times = in.times, !.years = in.years]
          /\ ret' = [NoRet EXCEPT
                        !.xs = AlignedSeries(in.target, in.times),
                        !.xs_target_shifted = AlignedSeries(in.target_shifted, in.times),
                        !.xs_profile_shifted = AlignedSeries(in.target, in.times_shifted)]
    /\ UNCHANGED <<loadVars, container, solarVars>>

---------------------------------------------------------------------------
(* Specifications *)

InitOf(u) ==
    /\ universe = u
    /\ cfg \in Universe(u).cfgs
    /\ file \in Universe(u).files
    /\ pc = "idle"
    /\ fieldnames = <<>>
    /\ load_columns = <<>>
    /\ series_units = <<>>
    /\ effective_datetime_format = "None"
    /\ rows = <<>>
    /\ datetimes = <<>>
    /\ series_values = <<>>
    /\ container = NoContainer
    /\ error = NoError
    /\ solar_calls = 0
    /\ solar_error = NoError
    /\ call = NoCall
    /\ ret = NoRet

NextLoad == Open \/ ParseRow \/ Finish

SpecParse == InitOf("parse") /\ [][NextLoad]_vars

SpecCond == InitOf("cond") /\ [][NextLoad]_vars

NextSerial == ExcelDecode \/ MatlabDecode \/ MatlabEncode \/ MatlabRoundTrip \/ ParseCell
SpecSerial == InitOf("serial") /\ [][NextSerial]_vars

SpecColumns == InitOf("columns") /\ [][NextLoad]_vars

SpecRows == InitOf("rows") /\ [][NextLoad]_vars

SpecCondition == InitOf("serial") /\ [][Condition \/ ConditionAgain]_vars

SpecAlign == InitOf("serial") /\ [][AlignYears \/ AlignNearest \/ AlignWithoutAxis \/ InferInterval
                                      \/ AlignListedColumns \/ Validate
                                      \/ SyntheticAxis]_vars

SpecHeaders == InitOf("serial") /\ [][Deduplicate \/ ResolveColumns]_vars

Init == InitOf("pipeline")
Next == Open \/ ParseRow \/ Finish \/ Solar
Spec == Init /\ [][Next]_vars

---------------------------------------------------------------------------
(* Claims *)

DateParseMessages ==
    {"empty datetime", "auto format could not parse text date",
     "value is not numeric", "failed datetime parse"}

\* the load failed with a date parse error
DateParseFailure == pc = "error" /\ error.msg \in DateParseMessages

\* C6: under excel_serial decoding serial 60 decodes to Feb 29 1900 and serial
\* 61 to Mar 1 1900, so the two serials decode to different dates.
C6_ExcelLeapDefect ==
    /\ call.fn = "_excel_serial_to_datetime" /\ call.serial = Serial(60, 0)
          => Ord2Ymd(ret.dt.ord) = <<1900, 2, 29>>
    /\ call.fn = "_excel_serial_to_datetime" /\ call.serial = Serial(61, 0)
          => Ord2Ymd(ret.dt.ord) = <<1900, 3, 1>>
    /\ call.fn = "_excel_serial_to_datetime" /\ call.serial = Serial(60, 0)
          => ret.dt # _excel_serial_to_datetime(Serial(61, 0))

AutoConfigured == cfg.datetime_format \in {"None", "auto"}

\* the datetime cell of the k-th row read
DtCellOf(k) == RowGet(rows[k], fieldnames, cfg.datetime_column)

\* the decoder the claim C7 expects for a numeric cell in auto mode
C7_ExpectedMode(serial) ==
    IF serial.day > 100000 \/ (serial.day = 100000 /\ serial.ft > 0) THEN "matlab_serial"
    ELSE "excel_serial"

\* C7: in auto mode a numeric datetime cell above 100,000 is decoded as
\* matlab_serial, one below 100,000 as excel_serial, and 100,000 itself as
\* excel_serial, both by the per-cell decoder and in the mode that the first
\* row of a load fixes.
C7_AutoMagnitudeBoundary ==
    (AutoConfigured /\ Len(rows) >= 1 /\ pc # "idle" /\ DtCellOf(1).k = "num") =>
        LET serial == SerialOf(DtCellOf(1).num)
        IN  /\ effective_datetime_format = C7_ExpectedMode(serial)
            /\ _parse_datetime_cell(DtCellOf(1), "auto", 2).dt
                   = DecodeSerial(C7_ExpectedMode(serial), serial)

\* C8: with datetime_format unset or auto, a file whose text dates all match
\* one of the four common patterns loads without a date parse error.
C8_AutoTextPatternsLoad ==
    (/\ AutoConfigured
     /\ pc # "idle"
     /\ \E p \in Range(AutoTrials) :
           \A k \in 1..Len(rows) : DtCellOf(k).k = "text" /\ DtCellOf(k).pat = p)
    => ~DateParseFailure

\* can the cell be decoded under the mode
C10_Decodable(cell, mode) ==
    \/ cell.k = "native"
    \/ cell.k = "num" /\ mode \in {"matlab_serial", "excel_serial"}
    \/ cell.k = "text" /\ cell.pat = mode

C10_Step ==
    (AutoConfigured /\ pc = "rows" /\ rows' # rows) =>
        LET cell == RowGet(rows'[Len(rows')], fieldnames, cfg.datetime_column)
        IN  /\ cell.k = "blank" => effective_datetime_format' = effective_datetime_format
            /\ cell.k # "blank" => effective_datetime_format' # "None"
            /\ effective_datetime_format # "None" =>
                  /\ effective_datetime_format' = effective_datetime_format
                  /\ (cell.k # "blank" /\ ~C10_Decodable(cell, effective_datetime_format))
                        => (pc' = "error" /\ error'.msg \in DateParseMessages)
                  /\ (cell.k = "num" /\ C10_Decodable(cell, effective_datetime_format))
                        => /\ pc' # "error" => Len(datetimes') = Len(datetimes) + 1
                           /\ Len(datetimes') = Len(datetimes) + 1 =>
                                 datetimes'[Len(datetimes')] =
                                     DecodeSerial(effective_datetime_format, SerialOf(cell.num))

\* C10: in auto mode the effective datetime mode is fixed by the first row with
\* a non-blank datetime cell and no later row changes it; a later row that the
\* fixed mode cannot decode fails the load with a date parse error, and a later
\* numeric row is decoded under the fixed mode, whatever its magnitude.
C10_ModeFixedByFirstRow == [][C10_Step]_vars

\* a load whose first row fixed a mode and whose later row failed under it
C10_Witness ==
    /\ AutoConfigured
    /\ DateParseFailure
    /\ Len(rows) >= 2
    /\ Len(datetimes) >= 1
    /\ effective_datetime_format # "None"
    /\ ~C10_Decodable(DtCellOf(Len(rows)), effective_datetime_format)

\* the time axis of the returned container
Axis == container.timeseries[KeyDatetime]

LoadKeys == {k \in DOMAIN container.timeseries : k.p = "electricity_load__"}

\* C1: after a load the container's time axis is strictly increasing and holds
\* no timestamp twice, whatever the order of the rows, the repeated
\* timestamps and the conditioning configuration.
C1_AxisStrictlyIncreasing ==
    pc = "done" => \A i \in 1..(Len(Axis) - 1) : DtLess(Axis[i], Axis[i + 1])

\* C2: after a load with treat_negative_as_missing enabled no loaded series
\* holds a missing (NaN) or a negative value.
C2_NoMissingNoNegative ==
    (pc = "done" /\ cfg.treat_negative_as_missing) =>
        \A k \in LoadKeys :
            \A i \in 1..Len(container.timeseries[k]) :
                /\ ~IsNaN(container.timeseries[k][i])
                /\ ~IsNeg(container.timeseries[k][i])

\* all consecutive differences of the axis are equal
AxisRegular ==
    \A i, j \in 1..(Len(Axis) - 1) :
        DiffTicks(Axis[i + 1], Axis[i]) = DiffTicks(Axis[j + 1], Axis[j])

\* C4: static time_step_hours is the constant difference, in hours, of a
\* regular final axis, and absent (None) when the final axis is not regular
\* (stated on axes of distinct increasing timestamps, where C1 is not at stake).
C4_TimeStepOnlyWhenRegular ==
    (/\ pc = "done"
     /\ Len(Axis) >= 2
     /\ \A i \in 1..(Len(Axis) - 1) : DtLess(Axis[i], Axis[i + 1])) =>
        IF AxisRegular
        THEN container.static.time_step_hours
                 = Q(DiffTicks(Axis[2], Axis[1]), 3600 * TicksPerSecond)
        ELSE container.static.time_step_hours = NoneQ

SolarKeys == {k \in DOMAIN container.timeseries : k.p = "solar_production__"}

\* C3: after a successful load and any number of solar calls, every array of
\* container.timeseries has the length of indices.time, and indices.time is
\* exactly 0..n-1.
C3_SeriesLengthsMatchAxis ==
    pc = "done" =>
        LET n == Len(container.indices.time)
        IN  /\ container.indices.time = [i \in 1..n |-> i - 1]
            /\ n = Len(Axis)
            /\ {KeyDatetime, KeyTimeSerial} \subseteq DOMAIN container.timeseries
            /\ \A k \in DOMAIN container.timeseries : Len(container.timeseries[k]) = n

\* two successful solar calls on a load whose axis is shorter than a profile
C3_Witness ==
    /\ pc = "done"
    /\ solar_calls >= 2
    /\ solar_error = NoError
    /\ Cardinality(SolarKeys) >= 2
    /\ LoadKeys # {}
    /\ Len(Axis) = 2

LoadStaticFields ==
    {"time_step_hours", "load_units", "load_units_by_series", "load_columns",
     "electricity_load_keys"}
SolarStaticFields ==
    {"solar_production_keys", "solar_production_units", "solar_production_columns"}

C5_Step ==
    solar_calls' # solar_calls =>
        /\ container'.indices = container.indices
        /\ container'.tech_params = container.tech_params
        /\ \A k \in DOMAIN container.timeseries :
              k.p # "solar_production__" =>
                  /\ k \in DOMAIN container'.timeseries
                  /\ container'.timeseries[k] = container.timeseries[k]
        /\ \A k \in DOMAIN container'.timeseries :
              k \notin DOMAIN container.timeseries => k.p = "solar_production__"
        /\ LoadStaticFields \subseteq DOMAIN container.static
        /\ \A f \in DOMAIN container.static :
              f \notin SolarStaticFields =>
                  /\ f \in DOMAIN container'.static
                  /\ container'.static[f] = container.static[f]
        /\ \A f \in DOMAIN container'.static :
              f \notin DOMAIN container.static => f \in SolarStaticFields

\* C5: a load_solar_into_container call leaves indices.time, the datetime and
\* time_serial arrays, every electricity_load__ series and every load metadata
\* entry as they were; it writes only solar_production__ series and the
\* solar_production_* metadata.
C5_SolarOnlyAdds == [][C5_Step]_vars

\* a solar call has written its series into a container without a time step
C5_Witness ==
    /\ pc = "done"
    /\ solar_calls >= 1
    /\ solar_error = NoError
    /\ SolarKeys # {}
    /\ "solar_production_keys" \in DOMAIN container.static
    /\ container.static.time_step_hours = NoneQ

\* the headers of a row other than the preferred name that carry a unit in
\* parentheses, in header order
OtherUnitHeaders(names, preferred) ==
    LET Other(name) == _UNIT_IN_PARENTHESES_PATTERN(name) /\ name # preferred
    IN  SelectSeq(names, Other)

\* C11: _resolve_load_columns returns the preferred name first and then every
\* other header matching the parenthesised kW/kWh pattern in header order when
\* the preferred name is among the headers, and exactly the matching headers
\* in header order when it is absent and at least one header matches.
C11_ResolvedColumns ==
    call.fn = "_resolve_load_columns" =>
        LET names == call.names
            preferred == call.configured_column
            matching == SelectSeq(names, _UNIT_IN_PARENTHESES_PATTERN)
        IN  /\ preferred \in Range(names) =>
                  /\ ret.ok
                  /\ ret.names = <<preferred>> \o OtherUnitHeaders(names, preferred)
            /\ preferred \notin Range(names) /\ matching # <<>> =>
                  /\ ret.ok
                  /\ ret.names = matching

\* the preferred name stands after another unit header and comes out first
C11_Witness ==
    /\ call.fn = "_resolve_load_columns"
    /\ call.names = <<HB, HA, HDate>>
    /\ call.configured_column = HA
    /\ ret.names = <<HA, HB>>

\* C13: for every list of raw headers _deduplicate_headers returns a list of
\* the same length and order whose names are pairwise distinct; the first
\* occurrence of a name is unchanged and its n-th occurrence (n >= 2) carries
\* the suffix " [n]".
C13_DeduplicatedHeadersDistinct ==
    call.fn = "_deduplicate_headers" =>
        /\ Len(ret.names) = Len(call.names)
        /\ \A i \in 1..Len(call.names) :
              LET n == Cardinality({j \in 1..i : call.names[j] = call.names[i]})
              IN  ret.names[i] =
                      IF n = 1 THEN call.names[i]
                      ELSE call.names[i] \o <<" ", "[">> \o IntToStr(n) \o <<"]">>
        /\ \A i, j \in 1..Len(ret.names) : i # j => ret.names[i] # ret.names[j]

\* C12: the load fails with a missing-column error listing all found headers
\* when the preferred value column is absent and no header matches the unit
\* pattern, and when the configured datetime column is absent whatever the
\* other headers are; no container is produced.
C12_MissingColumnListsHeaders ==
    pc # "idle" /\ file.exists =>
        LET names == _deduplicate_headers(file.headers)
            no_datetime == cfg.datetime_column \notin Range(names)
            no_load == /\ cfg.load_column \notin Range(names)
                       /\ \A i \in 1..Len(names) : ~_UNIT_IN_PARENTHESES_PATTERN(names[i])
        IN  /\ no_datetime \/ no_load =>
                  /\ pc = "error"
                  /\ error.type = "ValueError"
                  /\ error.found = names
                  /\ container = NoContainer
            /\ no_datetime =>
                  error.msg = "Missing required datetime column" /\ error.col = cfg.datetime_column
            /\ no_load /\ ~no_datetime =>
                  error.msg = "Missing required load column" /\ error.col = cfg.load_column

\* the datetime column is missing although a unit header is there
C12_WitnessDatetime ==
    /\ pc = "error"
    /\ file.headers = <<HNote, HA>>
    /\ error.msg = "Missing required datetime column"
    /\ error.found = <<HNote, HA>>

\* the energy column k of a finished load should hold: the parsed values of
\* the column in time order, times the step in hours when the header says kW
OwnColumnData(k) ==
    LET paired == PairedRows
        dt_hours == container.static.time_step_hours
        unit == _infer_units_from_header(load_columns[k])
    IN  [r \in 1..Len(paired) |->
            IF dt_hours # NoneQ /\ unit = "kW"
            THEN QMul(paired[r].vals[k], dt_hours)
            ELSE paired[r].vals[k]]

\* C14: storage keys are collision-safe: two distinct resolved columns of a
\* load get distinct keys electricity_load__<slug>, electricity_load_keys
\* repeats no key and has one key per entry of load_columns, and the array
\* under each key holds the data of its own column.
C14_KeysCollisionSafe ==
    pc = "done" /\ universe = "columns" =>
        LET keys == container.static.electricity_load_keys
            cols == container.static.load_columns
        IN  /\ Len(keys) = Len(cols)
            /\ \A i, j \in 1..Len(cols) : cols[i] # cols[j] => keys[i] # keys[j]
            /\ \A i, j \in 1..Len(keys) : i # j => keys[i] # keys[j]
            /\ \A k \in 1..Len(keys) :
                  /\ keys[k] = Key("electricity_load__", _normalize_series_key(cols[k]))
                  /\ container.timeseries[keys[k]] = OwnColumnData(k)

\* one iteration of the row loop on a row whose datetime cell decodes and
\* whose value cells are blank or numeric (any other cell ends the call with
\* the value error, and no row contributes to anything)
C15_Step ==
    pc = "rows" /\ rows' # rows =>
        LET row == rows'[Len(rows')]
            dt_raw == RowGet(row, fieldnames, cfg.datetime_column)
            valid == /\ dt_raw.k # "blank"
                     /\ _parse_datetime_cell(dt_raw, EffectiveFormat(dt_raw), 2).ok
                     /\ FirstBadColumn(row) = 0
        IN  valid =>
              /\ pc' = "rows"
              /\ Len(datetimes') = Len(datetimes) + 1
              /\ \A k \in 1..Len(load_columns) :
                    LET col == load_columns[k]
                        v == RowGet(row, fieldnames, col)
                    IN  /\ Len(series_values'[col]) = Len(series_values[col]) + 1
                        /\ SubSeq(series_values'[col], 1, Len(series_values[col])) = series_values[col]
                        /\ v.k = "blank" =>
                              /\ IsNaN(series_values'[col][Len(series_values'[col])])
                              /\ series_values'[col][Len(series_values'[col])] # Q(0, 1)
                        /\ v.k = "num" =>
                              series_values'[col][Len(series_values'[col])] = Q(v.num.n, v.num.d)

C16_ResampleDecision ==
    call.fn = "_condition_time_series" /\ call.dts # <<>> =>
        LET target == call.cfg.target_interval_minutes
            irregular == ~_timestamps_are_regular_enough(
                             call.dts, target[1], call.cfg.resample_tolerance_seconds)
        IN  /\ target = <<>> => ~ret.resampled
            /\ target # <<>> /\ call.cfg.resample_only_if_irregular =>
                  (ret.resampled <=> irregular)
            /\ target # <<>> /\ ~call.cfg.resample_only_if_irregular => ret.resampled
            /\ ~ret.resampled => ret.dts = call.dts
            /\ ret.resampled =>
                  ret.dts = ResampleIndex(call.dts, ResampleFreq(target[1]))

\* timestamps one minute off the hourly grid are within the tolerance and are
\* left alone; the same timestamps are resampled when the switch is off
C16_Witness ==
    /\ call.fn = "_condition_time_series"
    /\ call.cfg.target_interval_minutes = <<60>>
    /\ call.cfg.resample_only_if_irregular
    /\ call.dts = <<At(0), At(61)>>
    /\ ~ret.resampled
    /\ ret.dts = call.dts

\* every timestamp is a whole number of intervals after the first
OnGrid(dts, interval_minutes) ==
    \A i \in 1..Len(dts) :
        DiffTicks(dts[i], dts[1]) % (interval_minutes * 60 * TicksPerSecond) = 0

\* no value is missing or negative
CompleteNonNegative(xs) == \A i \in 1..Len(xs) : ~IsNaN(xs[i]) /\ ~IsNeg(xs[i])

\* C17: for timestamps lying exactly on a regular grid of the target interval
\* with complete non-negative values, _condition_time_series with
\* resample_only_if_irregular on returns the timestamps and values unchanged,
\* and applied again to its own output it returns the identical output.
C17_RegularInputUnchanged ==
    /\ call.fn \in {"_condition_time_series", "again"}
    /\ call.cfg.target_interval_minutes # <<>>
    /\ call.cfg.resample_only_if_irregular
    /\ OnGrid(call.dts, call.cfg.target_interval_minutes[1])
    /\ CompleteNonNegative(call.xs)
    => /\ ret.dts = call.dts
       /\ ret.xs = call.xs
       /\ ~ret.resampled

\* the second application to three hourly samples on the half-hour grid
C17_Witness ==
    /\ call.fn = "again"
    /\ call.cfg.target_interval_minutes = <<30>>
    /\ call.cfg.resample_only_if_irregular
    /\ call.dts = <<At(0), At(60), At(120)>>
    /\ call.xs = <<Q(10, 1), Q(10, 1), Q(10, 1)>>
    /\ ret.dts = call.dts
    /\ ret.xs = call.xs

\* C18: whenever _condition_time_series resamples with a target interval of
\* m minutes, consecutive output timestamps differ by exactly m minutes, for
\* every positive m that can be configured.
C18_ResampledStepIsTarget ==
    call.fn = "_condition_time_series" /\ ret.resampled =>
        \A i \in 1..(Len(ret.dts) - 1) :
            DiffTicks(ret.dts[i + 1], ret.dts[i]) =
                call.cfg.target_interval_minutes[1] * 60 * TicksPerSecond

\* the conditioned samples of the resolved column k of a finished load
ConditionedColumn(k) ==
    LET paired == PairedRows
        dts == [i \in 1..Len(paired) |-> paired[i].dt]
        series == [col \in Range(load_columns) |->
                      [i \in 1..Len(paired) |-> paired[i].vals[k]]]
    IN  _condition_time_series(dts, series, cfg).series[load_columns[k]]

\* C19: for every loaded column whose header unit is inferred as kW each
\* stored value is the conditioned sample times the interval duration in
\* hours, columns inferred as unknown are stored unconverted, and load_units
\* is always kWh; this holds for every load, whatever the number of rows.
C19_PowerConvertedToEnergy ==
    pc = "done" /\ universe = "rows" =>
        LET hours == container.static.time_step_hours
        IN  /\ container.static.load_units = "kWh"
            /\ \A k \in 1..Len(load_columns) :
                  LET unit == _infer_units_from_header(load_columns[k])
                      key == Key("electricity_load__", _normalize_series_key(load_columns[k]))
                      stored == container.timeseries[key]
                      sample == ConditionedColumn(k)
                  IN  /\ Len(stored) = Len(sample)
                      /\ unit = "kW" =>
                            /\ hours # NoneQ
                            /\ \A i \in 1..Len(stored) : stored[i] = QMul(sample[i], hours)
                      /\ unit = "unknown" => stored = sample

\* C20: the aligner's result does not depend on the calendar year: two target
\* axes that differ by a whole number of calendar years receive identical
\* aligned series, and moving the profile's own time column by whole years
\* leaves the aligned series unchanged.
C20_AlignmentIgnoresYear ==
    call.fn = "load_solar_into_container" =>
        /\ ret.xs_target_shifted = ret.xs
        /\ ret.xs_profile_shifted = ret.xs

\* the time of year of a timestamp, counted from January 1 of its own year
TimeOfYear(dt) == (dt.ord - Ymd2Ord(Ord2Ymd(dt.ord)[1], 1, 1)) * TicksPerDay + dt.t

\* C21: for every target timestamp the aligned sample of a profile column is
\* the value of the profile row whose time of year is nearest to the smaller
\* of the target's time of year and the profile's largest time of year; no
\* aligned sample is a value the profile column does not hold.
C21_NearestProfileRow ==
    call.fn = "reindex" =>
        /\ Len(ret.xs) = Len(call.dts)
        /\ \A j \in 1..Len(call.dts) :
              LET prows == 1..Len(call.times)
                  last == SetMax({TimeOfYear(call.times[i]) : i \in prows})
                  at == Min(TimeOfYear(call.dts[j]), last)
                  far(i) == Abs(TimeOfYear(call.times[i]) - at)
              IN  /\ \E i \in prows :
                        /\ \A k \in prows : far(i) <= far(k)
                        /\ ret.xs[j] = call.xs[i]
                  /\ ret.xs[j] \in Range(call.xs)

\* a target of December 31 in a leap year lies after the last row of a
\* profile dated in a common year and takes that last row
C21_Witness ==
    /\ call.fn = "reindex"
    /\ call.dts = <<DT(Ymd2Ord(2020, 12, 31), 0)>>
    /\ call.times[5] = DT(Ymd2Ord(2021, 12, 31), 0)
    /\ ret.xs = <<Q(5, 10)>>

\* the step is a successful call with treat_negative_as_missing enabled
SolarStepMasking ==
    /\ solar_calls' # solar_calls
    /\ solar_error' = NoError
    /\ \E args \in Universe(universe).solar_calls :
          /\ args.treat_negative_as_missing
          /\ [err |-> NoError, data |-> container'] =
                 load_solar_into_container(container, args.profile, args.datetime_column,
                                           TRUE, "linear")

C22_Step ==
    SolarStepMasking =>
        \A i \in 1..Len(container'.static.solar_production_keys) :
            LET written == container'.timeseries[container'.static.solar_production_keys[i]]
            IN  \A j \in 1..Len(written) : ~IsNaN(written[j]) /\ ~IsNeg(written[j])

\* C22: after a successful load_solar_into_container with
\* treat_negative_as_missing enabled every series the call wrote holds no NaN
\* and no negative value, for every profile content and every axis length.
C22_SolarSeriesClean == [][C22_Step]_vars

\* C23: load_solar_into_container with an existing profile file, on a
\* container that has no time axis yet (freshly constructed, or with an empty
\* datetime list), fails with the error saying that the container has no time
\* vector.
C23_MissingTimeAxisError ==
    call.fn = "no_axis" =>
        /\ ~ret.ok
        /\ ret.type = "ValueError"
        /\ ret.err = "DataContainer has no time vector"

\* r is 525600 / n rounded to the nearest integer, a tie going to the even one
IsNearestMinutes(n, r) ==
    LET e == IF r * n >= 525600 THEN r * n - 525600 ELSE 525600 - r * n
    IN  2 * e < n \/ (2 * e = n /\ r % 2 = 0)

\* the interval the row count stands for: 60, 30, 15 and 5 minutes for the
\* four listed counts, else the rounded quotient, at least one minute
IntervalForRowCount(n, v) ==
    CASE n = 8760 -> v = 60
      [] n = 17520 -> v = 30
      [] n = 35040 -> v = 15
      [] n = 105120 -> v = 5
      [] OTHER -> IsNearestMinutes(n, v) \/ (v = 1 /\ IsNearestMinutes(n, 0))

\* C24 as stated: for every row count n >= 1 of a profile without a time
\* column the interval is inferred: 60, 30, 15, 5 minutes for 8760, 17520,
\* 35040, 105120 rows, else round(60*8760/n) minutes, at least 1.
C24_EveryRowCountInferred ==
    (call.fn = "infer" /\ call.n >= 1) =>
        ret.ok /\ IntervalForRowCount(call.n, ret.v)

\* C24, amended: the interval is inferred as stated for every row count from
\* 1 to 525600 (one row per minute); a larger row count is refused with the
\* error that the time step cannot be inferred.
C24_RowCountInferredUpToMinutes ==
    (call.fn = "infer" /\ call.n >= 1) =>
        IF call.n <= 525600
        THEN ret.ok /\ IntervalForRowCount(call.n, ret.v)
        ELSE ~ret.ok

\* 210240 rows: 2.5 minutes per row, rounded to 2
C24_Witness == call.fn = "infer" /\ call.n = 210240 /\ ret.ok /\ ret.v = 2

\* C25: a call that lists the value columns (solar_columns) aligns and writes
\* only the listed columns: solar_production_columns is the list, and every
\* solar_production__ series of the container belongs to a listed column.
C25_OnlyListedColumnsWritten ==
    (call.fn = "listed" /\ ret.ok) =>
        /\ container.static["solar_production_columns"] = call.names
        /\ \A key \in DOMAIN container.timeseries :
               key.p = "solar_production__" =>
                   \E i \in 1..Len(call.names) :
                       key = Key("solar_production__", solar_normalize_series_key(call.names[i]))

\* C26: an error raised for a source row (a date or a value that cannot be
\* parsed) carries the file path, the 1-based row number of that row counting
\* the header as row 1, and the raw text of the offending cell.
C26_RowErrorsCarryPathRowRaw ==
    (pc = "error" /\ error.row # 0) =>
        /\ error.path
        /\ error.row = Len(rows) + 1
        /\ error.raw

\* the entries the assembled container has to hold: the index range, the
\* timestamps and their serials, a non-empty list of series keys
TimeAxisPresent(c) ==
    /\ "time" \in DOMAIN c.indices
    /\ KeyTimeSerial \in DOMAIN c.timeseries
    /\ KeyDatetime \in DOMAIN c.timeseries

SeriesKeysPresent(c) ==
    /\ "electricity_load_keys" \in DOMAIN c.static
    /\ c.static["electricity_load_keys"] # <<>>
    /\ \A i \in 1..Len(c.static["electricity_load_keys"]) :
           c.static["electricity_load_keys"][i] \in DOMAIN c.timeseries

\* the index range, the serials and every declared array are as long as the
\* timestamps, and the recorded interval is the step of the timestamps
IntervalAxisConsistent(c) ==
    LET n == Len(c.timeseries[KeyDatetime])
    IN  /\ Len(c.indices["time"]) = n
        /\ Len(c.timeseries[KeyTimeSerial]) = n
        /\ \A i \in 1..Len(c.static["electricity_load_keys"]) :
               Len(c.timeseries[c.static["electricity_load_keys"][i]]) = n
        /\ "time_step_hours" \in DOMAIN c.static
        /\ c.static["time_step_hours"] = DtHours(c.timeseries[KeyDatetime])

\* C27: validate_minimum_fields fails, naming the missing field, whenever the
\* time axis, the series keys (or the array of a declared key) or the
\* consistency of interval and axis is absent; a container that passes has
\* all of them.
C27_ValidationRequiresAllFields ==
    call.fn = "validate_minimum_fields" =>
        /\ ret.ok <=> (/\ TimeAxisPresent(container)
                       /\ SeriesKeysPresent(container)
                       /\ IntervalAxisConsistent(container))
        /\ ~ret.ok => ret.err \in {"indices.time is required",
                                   "timeseries.time_serial is required",
                                   "static.electricity_load_keys is required (non-empty)",
                                   "timeseries.key is required"}

\* one call of load_solar_into_container that ends with an error
C28_Step ==
    (solar_calls' # solar_calls /\ solar_error' # NoError) =>
        /\ container'.timeseries = container.timeseries
        /\ container'.static = container.static

\* C28: load_solar_into_container is all-or-nothing: a call that fails with
\* any error leaves the container's timeseries and static entries exactly as
\* they were before the call.
C28_FailedCallWritesNothing == [][C28_Step]_vars

\* a call failed in the reindexing, after the column checks, on a container
\* that holds the series of an earlier call
C28_Witness ==
    /\ solar_calls = 2
    /\ solar_error.msg = "cannot reindex on an axis with duplicate labels"
    /\ "solar_production_keys" \in DOMAIN container.static

\* C29: once load_solar_into_container has succeeded on a container, the
\* solar_production__ keys of timeseries are exactly the keys listed in
\* static['solar_production_keys'], the list repeats no key, and it has one
\* key per entry of static['solar_production_columns'].
C29_SolarMetadataMatchesSeries ==
    "solar_production_keys" \in DOMAIN container.static =>
        LET keys == container.static["solar_production_keys"]
        IN  /\ {k \in DOMAIN container.timeseries : k.p = "solar_production__"} = Range(keys)
            /\ \A i, j \in 1..Len(keys) : keys[i] = keys[j] => i = j
            /\ Len(keys) = Len(container.static["solar_production_columns"])

\* C30: for a profile without a time column the synthetic axis has one
\* timestamp per row, spaced by the inferred interval from 2021-01-01 00:00,
\* and stays within 2021, so that the time-of-year keys of the rows are
\* strictly increasing.
C30_SyntheticAxisWithinYear ==
    (call.fn = "synthetic" /\ ret.ok) =>
        /\ Len(ret.dts) = call.n
        /\ \A i \in 1..Len(ret.dts) :
               /\ ret.dts[i] = AddDaysTicks(DT(Ymd2Ord(2021, 1, 1), 0), 0,
                                            (i - 1) * ret.v * 60 * TicksPerSecond)
               /\ Ord2Ymd(ret.dts[i].ord)[1] = 2021
        /\ \A i \in 1..(Len(ret.dts) - 1) :
               TimeOfYear(ret.dts[i]) < TimeOfYear(ret.dts[i + 1])

====
